---- MODULE Spec2Model ----
(***************************************************************************)
(* Weather/traffic data pipeline: synthetic generators (Data Generation/), *)
(* cleaner (Phase 2/Data Cleaning.py) and merge (Phase 4/Data Merge.py).   *)
(*                                                                         *)
(* A table cell is a record [k, n, s]:                                     *)
(*   k = "null"   a missing value (None / NaN / NaT)                       *)
(*   k = "num"    a number n (floats are kept as integers)                 *)
(*   k = "numstr" the text of the number n in a column read as text        *)
(*   k = "str"    the string s                                             *)
(*   k = "ts"     the text of the point in time n (minutes after           *)
(*                2024-01-01 00:00) written in the strftime format s       *)
(*   k = "dt"     a parsed timestamp, n minutes after 2024-01-01 00:00     *)
(* A row is a function from column names to cells, a table a sequence of   *)
(* rows.                                                                   *)
(***************************************************************************)
EXTENDS Integers, Sequences, FiniteSets, TLC

VARIABLES
    \* ---- cleaner (Phase 2) ----
    dom,      \* which section of main() runs: "weather" or "traffic"
    raw,      \* the bronze object the section downloads
    df,       \* weather_df / traffic_df
    cpc,      \* position inside the section
    pass,     \* 1: cleaning a raw object, 2: cleaning the output of pass 1
    out1,     \* the silver object written by pass 1
    \* ---- generators (Data Generation) ----
    gdom,     \* "weather": generate_weather_data, "traffic": generate_traffic_data
    N,        \* num_records
    rng,      \* state of Python's random
    nprng,    \* state of numpy's np.random
    gi,       \* the loop variable i (records appended so far)
    data,     \* the rows of the dict of lists `data`
    issues,   \* the locals of each iteration: has_issues, current_date,
              \* base_vehicles, base_speed
    dupIdx,   \* duplicate_indices
    dups,     \* the frame `duplicates`
    didx,     \* the loop variable idx over duplicates
    gdf,      \* the frame the call returns
    gpc,      \* position inside the call
    run,      \* 1: first call, 2: a second call with the same arguments
    gout1,    \* what the first call returned
    \* ---- merge (Phase 4) ----
    weather_df,  \* [cols, rows]: the frame read from silver/weather_cleaned.parquet
    traffic_df,  \* [cols, rows]: the frame read from silver/traffic_cleaned.parquet
    merged_df,   \* [cols, rows]
    pairs,       \* for each row of merged_df, the rows <<i, j>> of weather_df
                 \* and traffic_df it was joined from
    final_df,    \* [cols, rows]: the frame written to gold/merged_dataset.parquet
    mpc,         \* position inside main()
    \* ---- object store (MinIO) ----
    bronze,      \* the objects of the bucket "bronze", by name: raw tables
    silver,      \* the objects of the bucket "silver", by name: cleaned frames
    gold         \* the objects of the bucket "gold", by name: merged frames

cvars == <<dom, raw, df, cpc, pass, out1>>
gvars == <<gdom, N, rng, nprng, gi, data, issues, dupIdx, dups, didx, gdf, gpc, run, gout1>>
mvars == <<weather_df, traffic_df, merged_df, pairs, final_df, mpc>>
svars == <<bronze, silver, gold>>
vars == <<cvars, gvars, mvars, svars>>

(***************************************************************************)
(* Cells                                                                   *)
(***************************************************************************)
Null == [k |-> "null", n |-> 0, s |-> ""]
Num(x) == [k |-> "num", n |-> x, s |-> ""]
NumStr(x) == [k |-> "numstr", n |-> x, s |-> ""]
Str(x) == [k |-> "str", n |-> 0, s |-> x]
Ts(fmt, t) == [k |-> "ts", n |-> t, s |-> fmt]
Dt(t) == [k |-> "dt", n |-> t, s |-> ""]

IsNull(c) == c.k = "null"

Range(f) == {f[i] : i \in DOMAIN f}

\* The strftime formats the generators write.
FmtStd == "%Y-%m-%d %H:%M"
FmtDmy12 == "%d/%m/%Y %I:%M%p"
FmtIsoZ == "%Y-%m-%dT%H:%MZ"
FmtSlash == "%Y/%m/%d %H:%M:%S"
FmtDMon == "%d-%b-%Y %H:%M"

(***************************************************************************)
(* Calendar of 2024, the year of start_date                                *)
(***************************************************************************)
MinutesPerDay == 24 * 60

\* Days of 2024 before the first day of month m.
DaysBefore(m) ==
    CASE m = 1 -> 0 [] m = 2 -> 31 [] m = 3 -> 60 [] m = 4 -> 91
      [] m = 5 -> 121 [] m = 6 -> 152 [] m = 7 -> 182 [] m = 8 -> 213
      [] m = 9 -> 244 [] m = 10 -> 274 [] m = 11 -> 305 [] m = 12 -> 335
      [] OTHER -> 366

MonthOf(t) ==
    LET d == t \div MinutesPerDay
    IN  CHOOSE m \in 1..12 : DaysBefore(m) <= d /\ d < DaysBefore(m + 1)

DayOf(t) == (t \div MinutesPerDay) - DaysBefore(MonthOf(t)) + 1

\* The point in time with the month and the day of t exchanged.
SwapDayMonth(t) ==
    (DaysBefore(DayOf(t)) + MonthOf(t) - 1) * MinutesPerDay + (t % MinutesPerDay)

(***************************************************************************)
(* Schemas                                                                 *)
(***************************************************************************)
WCols == <<"weather_id", "date_time", "city", "season", "temperature_c",
           "humidity", "rain_mm", "wind_speed_kmh", "visibility_m",
           "weather_condition", "air_pressure_hpa">>

TCols == <<"traffic_id", "date_time", "city", "area", "vehicle_count",
           "avg_speed_kmh", "accident_count", "congestion_level",
           "road_condition", "visibility_m">>

(***************************************************************************)
(* Cleaner: the tables of Phase 2/Data Cleaning.py                         *)
(***************************************************************************)
TempLo == -10
TempHi == 40
HumLo == 0
HumHi == 100
RainLo == 0
RainHi == 100
WindLo == 0
WindHi == 150
WVisLo == 50
WVisHi == 20000
PresLo == 950
PresHi == 1050
VehLo == 0
VehHi == 10000
SpeedLo == 0
SpeedHi == 120
AccLo == 0
AccHi == 20
TVisLo == 50
TVisHi == 10000

valid_conditions == {"Clear", "Rain", "Fog", "Storm", "Snow"}
valid_seasons == {"Winter", "Spring", "Summer", "Autumn"}
valid_areas == {"Camden", "Chelsea", "Islington", "Southwark", "Kensington",
                "Westminster", "Greenwich", "Hackney", "Lambeth"}
valid_congestion == {"Low", "Medium", "High"}
valid_road == {"Dry", "Wet", "Snowy", "Damaged"}

(***************************************************************************)
(* Cleaner: column operations of pandas                                    *)
(***************************************************************************)
\* df[col] = f(df[col]), element by element.
MapCol(d, col, F(_)) == [i \in 1..Len(d) |-> [d[i] EXCEPT ![col] = F(d[i][col])]]

Column(d, col) == [i \in 1..Len(d) |-> d[i][col]]

\* DataFrame.drop_duplicates(): a row equal on every column to an earlier row
\* goes, the first of each group stays, the order is kept.
\* (DropDuplicatesIgnoringId compares the rows without their identifier.)
DropDuplicatesIgnoringId(d) ==
    LET SameBesideId(r1, r2) ==
            \A c \in DOMAIN r1 \ {"weather_id", "traffic_id"} : r1[c] = r2[c]
        keep == {i \in 1..Len(d) : \A j \in 1..(i - 1) : ~SameBesideId(d[j], d[i])}
    IN  [k \in 1..Cardinality(keep) |->
            d[CHOOSE i \in keep : Cardinality({j \in keep : j <= i}) = k]]
RECURSIVE DropDuplicates(_)
DropDuplicates(d) ==
    IF Len(d) = 0 THEN d
    ELSE LET head == DropDuplicates(SubSeq(d, 1, Len(d) - 1))
         IN  IF d[Len(d)] \in Range(head) THEN head ELSE Append(head, d[Len(d)])

\* What a call leaves in place of a value it raises an exception on, and the
\* tables in which a call has raised.
Raise == [k |-> "raise", n |-> 0, s |-> ""]
Raised(d) == \E i \in DOMAIN d : \E c \in DOMAIN d[i] : d[i][c].k = "raise"

\* pd.to_numeric(x, errors='coerce'): a number or the text of one is the
\* number, anything else is NaN.
ToNumericKeepsText(c) == IF c.k = "num" THEN c ELSE IF IsNull(c) THEN Null ELSE c
ToNumeric(c) == IF c.k \in {"num", "numstr"} THEN Num(c.n) ELSE Null

\* Series.clip(lo, hi): NaN stays NaN, and the comparison of a text with a
\* number raises TypeError.  (ClipToNull unsets what lies outside
\* instead; ClipFillsNull puts the lower bound in place of NaN.)
ClipFillsNull(c, lo, hi) ==
    IF IsNull(c) THEN Num(lo)
    ELSE IF c.k # "num" THEN Raise
    ELSE IF c.n < lo THEN Num(lo) ELSE IF c.n > hi THEN Num(hi) ELSE c
ClipToNull(c, lo, hi) ==
    IF IsNull(c) THEN c
    ELSE IF c.n < lo \/ c.n > hi THEN Null ELSE c
Clip(c, lo, hi) ==
    IF IsNull(c) THEN c
    ELSE IF c.k # "num" THEN Raise
    ELSE IF c.n < lo THEN Num(lo) ELSE IF c.n > hi THEN Num(hi) ELSE c

\* The two statements the cleaner runs on every numeric column.
FixNumberNoClip(c, lo, hi) == ToNumeric(c)
FixNumber(c, lo, hi) == Clip(ToNumeric(c), lo, hi)

\* dateutil's reading of one text, month first: dd/mm/yyyy with dd <= 12 is
\* read as mm/dd/yyyy.
ParseEach(c) ==
    CASE c.k = "dt" -> c
      [] c.k = "ts" ->
            IF c.s = FmtDmy12 /\ DayOf(c.n) <= 12
            THEN Dt(SwapDayMonth(c.n)) ELSE Dt(c.n)
      [] OTHER -> Null

\* One text read with the format guessed from the column's first text g.
ParseAs(g, c) ==
    CASE c.k = "dt" -> c
      [] c.k = "ts" /\ c.s = g.s ->
            IF g.s = FmtDmy12 /\ DayOf(g.n) <= 12
            THEN (IF DayOf(c.n) <= 12 THEN Dt(SwapDayMonth(c.n)) ELSE Null)
            ELSE Dt(c.n)
      [] OTHER -> Null

FirstText(col) ==
    LET idx == {i \in 1..Len(col) : ~IsNull(col[i])}
    IN  IF idx = {} THEN Null
        ELSE col[CHOOSE i \in idx : \A j \in idx : i <= j]

\* The script pins no pandas version; the installed one decides how a text
\* column of timestamps is parsed.
PandasModes == {"each", "infer"}

\* pd.to_datetime(df['date_time'], errors='coerce').  "each": every text is
\* parsed on its own (pandas < 2).  "infer": the format is guessed from the
\* first text and every text must match it; when no format can be guessed
\* the texts are parsed one by one (pandas >= 2).
ToDatetime(d, mode) ==
    LET g == FirstText(Column(d, "date_time"))
    IN  IF mode = "infer" /\ g.k = "ts"
        THEN MapCol(d, "date_time", LAMBDA c : ParseAs(g, c))
        ELSE MapCol(d, "date_time", LAMBDA c : ParseEach(c))

\* x if x in valid else np.random.choice(valid): the tables a repair of
\* column col can leave.
InLabels(c, valid) == c.k = "str" /\ c.s \in valid

RepairedKeepsInvalid(d, col, valid) == {d}
Repaired(d, col, valid) ==
    {[i \in 1..Len(d) |->
        IF InLabels(d[i][col], valid) THEN d[i]
        ELSE [d[i] EXCEPT ![col] = Str(f[i])]] : f \in [1..Len(d) -> valid]}

get_season(date) ==
    IF IsNull(date) THEN Null
    ELSE IF date.k # "dt" THEN Raise
    ELSE LET month == MonthOf(date.n)
         IN  IF month \in {12, 1, 2} THEN Str("Winter")
             ELSE IF month \in {3, 4, 5} THEN Str("Spring")
             ELSE IF month \in {6, 7, 8} THEN Str("Summer")
             ELSE Str("Autumn")

FillSeasonOverwrite(d) ==
    [i \in 1..Len(d) |-> [d[i] EXCEPT !["season"] = get_season(d[i]["date_time"])]]
FillSeason(d) ==
    [i \in 1..Len(d) |->
        IF InLabels(d[i]["season"], valid_seasons) THEN d[i]
        ELSE [d[i] EXCEPT !["season"] = get_season(d[i]["date_time"])]]

\* DataFrame.dropna(subset=cols)
DropNaKeepsAll(d, cols) == d
DropNa(d, cols) == SelectSeq(d, LAMBDA r : \A c \in cols : ~IsNull(r[c]))

WeatherCriticalWithHumidity == {"date_time", "temperature_c", "humidity"}
WeatherCritical == {"date_time", "temperature_c"}
TrafficCritical == {"date_time", "area", "vehicle_count"}

(***************************************************************************)
(* Cleaner: the raw objects it is run on                                   *)
(***************************************************************************)
MaxRows == 2

MkRow(cols, vals) == [c \in Range(cols) |-> vals[CHOOSE i \in DOMAIN cols : cols[i] = c]]

\* A well-formed weather row, as generate_weather_data writes it for i = 0.
WBase ==
    MkRow(WCols, <<Num(5001), Ts(FmtStd, 0), Str("London"), Str("Winter"),
                   Num(12), Num(70), Num(5), Num(20), Num(5000),
                   Str("Clear"), Num(1000)>>)

\* A well-formed traffic row, as generate_traffic_data writes it for i = 0.
TBase ==
    MkRow(TCols, <<Num(9001), Ts(FmtStd, 30), Str("London"), Str("Camden"),
                   Num(1500), Num(60), Num(0), Str("Low"), Str("Dry"),
                   Num(5000)>>)

\* base with the columns of record p overwritten.
Patch(base, p) == [c \in DOMAIN base |-> IF c \in DOMAIN p THEN p[c] ELSE base[c]]

\* What the generators write in a record with issues (nulls, outliers, texts
\* in numeric columns, invalid labels, other timestamp formats, invalid
\* timestamps), and the timestamps of other records.
WAnomalies ==
    {[weather_id |-> Null],
     [date_time |-> Null],
     [date_time |-> Str("Unknown")],
     [date_time |-> Ts(FmtStd, 60)],
     [date_time |-> Ts(FmtIsoZ, 0)],
     [date_time |-> Ts(FmtDmy12, MinutesPerDay)],
     [city |-> Null],
     [date_time |-> Ts(FmtStd, 170 * MinutesPerDay), season |-> Str("Monsoon")],
     [date_time |-> Null, season |-> Null],
     [temperature_c |-> Null],
     [date_time |-> Ts(FmtStd, 100 * MinutesPerDay), season |-> Str("Fall"),
      temperature_c |-> Num(100), humidity |-> Num(150), rain_mm |-> Num(200),
      wind_speed_kmh |-> Num(300), visibility_m |-> Num(50000),
      air_pressure_hpa |-> Num(1100)],
     [temperature_c |-> Num(-30), humidity |-> Num(-10), rain_mm |-> Num(-1),
      wind_speed_kmh |-> Num(-5), visibility_m |-> NumStr(10),
      air_pressure_hpa |-> Num(900)],
     [season |-> Str("Summer"), humidity |-> Null, rain_mm |-> Null,
      wind_speed_kmh |-> Null, visibility_m |-> Str("Low"),
      air_pressure_hpa |-> Null],
     [date_time |-> Ts(FmtStd, 250 * MinutesPerDay), season |-> Null,
      weather_condition |-> Null]}

TAnomalies ==
    {[traffic_id |-> Null],
     [date_time |-> Null],
     [date_time |-> Str("TBD")],
     [date_time |-> Ts(FmtStd, 90)],
     [date_time |-> Ts(FmtDMon, 30)],
     [date_time |-> Ts(FmtDmy12, MinutesPerDay + 30)],
     [city |-> Null],
     [area |-> Null],
     [city |-> Str("Paris"), area |-> Str("Brent")],
     [vehicle_count |-> Null],
     [vehicle_count |-> Num(30000), avg_speed_kmh |-> Num(200),
      accident_count |-> Num(75), visibility_m |-> Num(100000)],
     [vehicle_count |-> Num(-5), avg_speed_kmh |-> Num(-30),
      accident_count |-> Num(-1), visibility_m |-> Num(10)],
     [avg_speed_kmh |-> Null, accident_count |-> Null, visibility_m |-> Null],
     [congestion_level |-> Str("Heavy"), road_condition |-> Null]}

RawRows(d) ==
    IF d = "weather"
    THEN {WBase} \cup {Patch(WBase, a) : a \in WAnomalies}
    ELSE {TBase} \cup {Patch(TBase, a) : a \in TAnomalies}

RawTables(d) == UNION {[1..n -> RawRows(d)] : n \in 0..MaxRows}

(***************************************************************************)
(* The parts of the pipeline run as separate programs; while one runs the  *)
(* variables of the others rest.                                           *)
(***************************************************************************)
\* A bucket without objects; the names of the objects of each stage.
NoObjects == [o \in {} |-> o]
RawObject(d) == IF d = "weather" THEN "weather_data_raw.csv" ELSE "traffic_data_raw.csv"
CleanedObject(d) ==
    IF d = "weather" THEN "weather_cleaned.parquet" ELSE "traffic_cleaned.parquet"
ColsOf(d) == IF d = "weather" THEN WCols ELSE TCols

GenIdle ==
    /\ gdom = "weather" /\ N = 0 /\ rng = 0 /\ nprng = 0 /\ gi = 0
    /\ data = <<>> /\ issues = <<>> /\ dupIdx = <<>> /\ dups = <<>>
    /\ didx = 0 /\ gdf = <<>> /\ gpc = "idle" /\ run = 1 /\ gout1 = <<>>

EmptyFrame == [cols |-> <<>>, rows |-> <<>>]

MergeIdle ==
    /\ weather_df = EmptyFrame /\ traffic_df = EmptyFrame /\ merged_df = EmptyFrame
    /\ pairs = <<>> /\ final_df = EmptyFrame /\ mpc = "idle"

CleanIdle ==
    /\ dom = "weather" /\ raw = <<>> /\ df = <<>> /\ cpc = "idle"
    /\ pass = 1 /\ out1 = <<>>

(***************************************************************************)
(* Cleaner: main() of Phase 2/Data Cleaning.py, one section per run        *)
(***************************************************************************)
CleanInit ==
    /\ dom \in {"weather", "traffic"}
    /\ raw \in RawTables(dom)
    /\ df = <<>>
    /\ cpc = "download"
    /\ pass = 1
    /\ out1 = <<>>
    /\ bronze = (RawObject(dom) :> raw)
    /\ silver = NoObjects
    /\ gold = NoObjects
    /\ GenIdle
    /\ MergeIdle

\* client.get_object("bronze", ...) and pd.read_csv
Download ==
    /\ cpc = "download"
    /\ df' = bronze[RawObject(dom)]
    /\ cpc' = "dedup"
    /\ UNCHANGED <<dom, raw, pass, out1>>
    /\ UNCHANGED <<gvars, mvars, svars>>

RemoveDuplicates ==
    /\ cpc = "dedup"
    /\ df' = DropDuplicates(df)
    /\ cpc' = "datetime"
    /\ UNCHANGED <<dom, raw, pass, out1>>
    /\ UNCHANGED <<gvars, mvars, svars>>

FixDateTime ==
    /\ cpc = "datetime"
    /\ \E mode \in PandasModes : df' = ToDatetime(df, mode)
    /\ cpc' = IF dom = "weather" THEN "w_numeric" ELSE "t_area"
    /\ UNCHANGED <<dom, raw, pass, out1>>
    /\ UNCHANGED <<gvars, mvars, svars>>

W_FixNumeric ==
    /\ cpc = "w_numeric"
    /\ LET d1 == MapCol(df, "temperature_c", LAMBDA c : FixNumber(c, TempLo, TempHi))
           d2 == MapCol(d1, "humidity", LAMBDA c : FixNumber(c, HumLo, HumHi))
           d3 == MapCol(d2, "rain_mm", LAMBDA c : FixNumber(c, RainLo, RainHi))
           d4 == MapCol(d3, "wind_speed_kmh", LAMBDA c : FixNumber(c, WindLo, WindHi))
           d5 == MapCol(d4, "visibility_m", LAMBDA c : FixNumber(c, WVisLo, WVisHi))
       IN  df' = MapCol(d5, "air_pressure_hpa", LAMBDA c : FixNumber(c, PresLo, PresHi))
    /\ cpc' = IF Raised(df') THEN "error" ELSE "w_condition"
    /\ UNCHANGED <<dom, raw, pass, out1>>
    /\ UNCHANGED <<gvars, mvars, svars>>

W_FixCondition ==
    /\ cpc = "w_condition"
    /\ df' \in Repaired(df, "weather_condition", valid_conditions)
    /\ cpc' = "w_city"
    /\ UNCHANGED <<dom, raw, pass, out1>>
    /\ UNCHANGED <<gvars, mvars, svars>>

SetCityFillsNull(d) ==
    MapCol(d, "city", LAMBDA c : IF IsNull(c) THEN Str("London") ELSE c)
SetCity(d) == MapCol(d, "city", LAMBDA c : Str("London"))

W_SetCity ==
    /\ cpc = "w_city"
    /\ df' = SetCity(df)
    /\ cpc' = "w_season"
    /\ UNCHANGED <<dom, raw, pass, out1>>
    /\ UNCHANGED <<gvars, mvars, svars>>

W_FillSeason ==
    /\ cpc = "w_season"
    /\ df' = FillSeason(df)
    /\ cpc' = IF Raised(df') THEN "error" ELSE "w_dropna"
    /\ UNCHANGED <<dom, raw, pass, out1>>
    /\ UNCHANGED <<gvars, mvars, svars>>

W_DropNa ==
    /\ cpc = "w_dropna"
    /\ df' = DropNa(df, WeatherCritical)
    /\ cpc' = "save"
    /\ UNCHANGED <<dom, raw, pass, out1>>
    /\ UNCHANGED <<gvars, mvars, svars>>

\* As T_FixArea, but an unset area is left unset.
T_FixAreaNullKept ==
    /\ cpc = "t_area"
    /\ df' \in {[i \in 1..Len(df) |-> IF IsNull(df[i]["area"]) THEN df[i] ELSE d[i]] :
                   d \in Repaired(df, "area", valid_areas)}
    /\ cpc' = "t_numeric"
    /\ UNCHANGED <<dom, raw, pass, out1>>
    /\ UNCHANGED <<gvars, mvars, svars>>

T_FixArea ==
    /\ cpc = "t_area"
    /\ df' \in Repaired(df, "area", valid_areas)
    /\ cpc' = "t_numeric"
    /\ UNCHANGED <<dom, raw, pass, out1>>
    /\ UNCHANGED <<gvars, mvars, svars>>

T_FixNumeric ==
    /\ cpc = "t_numeric"
    /\ LET d1 == MapCol(df, "vehicle_count", LAMBDA c : FixNumber(c, VehLo, VehHi))
           d2 == MapCol(d1, "avg_speed_kmh", LAMBDA c : FixNumber(c, SpeedLo, SpeedHi))
       IN  df' = MapCol(d2, "accident_count", LAMBDA c : FixNumber(c, AccLo, AccHi))
    /\ cpc' = IF Raised(df') THEN "error" ELSE "t_congestion"
    /\ UNCHANGED <<dom, raw, pass, out1>>
    /\ UNCHANGED <<gvars, mvars, svars>>

T_FixCongestion ==
    /\ cpc = "t_congestion"
    /\ df' \in Repaired(df, "congestion_level", valid_congestion)
    /\ cpc' = "t_road"
    /\ UNCHANGED <<dom, raw, pass, out1>>
    /\ UNCHANGED <<gvars, mvars, svars>>

T_FixRoad ==
    /\ cpc = "t_road"
    /\ df' \in Repaired(df, "road_condition", valid_road)
    /\ cpc' = "t_visibility"
    /\ UNCHANGED <<dom, raw, pass, out1>>
    /\ UNCHANGED <<gvars, mvars, svars>>

T_FixVisibility ==
    /\ cpc = "t_visibility"
    /\ df' = MapCol(df, "visibility_m", LAMBDA c : FixNumber(c, TVisLo, TVisHi))
    /\ cpc' = IF Raised(df') THEN "error" ELSE "t_city"
    /\ UNCHANGED <<dom, raw, pass, out1>>
    /\ UNCHANGED <<gvars, mvars, svars>>

T_SetCity ==
    /\ cpc = "t_city"
    /\ df' = SetCity(df)
    /\ cpc' = "t_dropna"
    /\ UNCHANGED <<dom, raw, pass, out1>>
    /\ UNCHANGED <<gvars, mvars, svars>>

T_DropNa ==
    /\ cpc = "t_dropna"
    /\ df' = DropNa(df, TrafficCritical)
    /\ cpc' = "save"
    /\ UNCHANGED <<dom, raw, pass, out1>>
    /\ UNCHANGED <<gvars, mvars, svars>>

\* to_parquet and fput_object("silver", ...)
Save ==
    /\ cpc = "save"
    /\ out1' = IF pass = 1 THEN df ELSE out1
    /\ silver' = (CleanedObject(dom) :> [cols |-> ColsOf(dom), rows |-> df]) @@ silver
    /\ cpc' = "done"
    /\ UNCHANGED <<dom, raw, df, pass, bronze, gold>>
    /\ UNCHANGED <<gvars, mvars>>

\* The cleaner is run once more, on the table it has just written.
Rerun ==
    /\ cpc = "done"
    /\ pass = 1
    /\ raw' = df
    /\ bronze' = (RawObject(dom) :> df)
    /\ pass' = 2
    /\ cpc' = "download"
    /\ UNCHANGED <<dom, df, out1, silver, gold>>
    /\ UNCHANGED <<gvars, mvars>>

CleanNext ==
    \/ Download \/ RemoveDuplicates \/ FixDateTime
    \/ W_FixNumeric \/ W_FixCondition \/ W_SetCity \/ W_FillSeason \/ W_DropNa
    \/ T_FixArea \/ T_FixNumeric \/ T_FixCongestion \/ T_FixRoad
    \/ T_FixVisibility \/ T_SetCity \/ T_DropNa
    \/ Save \/ Rerun

SpecClean == CleanInit /\ [][CleanNext]_vars

(***************************************************************************)
(* Cleaner: properties                                                     *)
(***************************************************************************)
Cleaned == cpc = "done"

InBounds(c, lo, hi) == IsNull(c) \/ (c.k = "num" /\ lo <= c.n /\ c.n <= hi)

\* C1: in a cleaned table every numeric cell that is not null lies inside
\* the inclusive interval declared for its column.
C1_NumericInBounds ==
    Cleaned =>
        \A i \in DOMAIN df :
            IF dom = "weather"
            THEN /\ InBounds(df[i]["temperature_c"], -10, 40)
                 /\ InBounds(df[i]["humidity"], 0, 100)
                 /\ InBounds(df[i]["rain_mm"], 0, 100)
                 /\ InBounds(df[i]["wind_speed_kmh"], 0, 150)
                 /\ InBounds(df[i]["air_pressure_hpa"], 950, 1050)
                 /\ InBounds(df[i]["visibility_m"], 50, 20000)
            ELSE /\ InBounds(df[i]["visibility_m"], 50, 10000)
                 /\ InBounds(df[i]["vehicle_count"], 0, 10000)
                 /\ InBounds(df[i]["avg_speed_kmh"], 0, 120)
                 /\ InBounds(df[i]["accident_count"], 0, 20)

\* A raw weather row with every measurement above its interval has been
\* cleaned and kept, clamped to the upper bounds.
C1_Witness ==
    /\ Cleaned /\ pass = 1 /\ dom = "weather"
    /\ \E i \in DOMAIN raw : raw[i]["temperature_c"] = Num(100)
                             /\ raw[i]["air_pressure_hpa"] = Num(1100)
    /\ \E j \in DOMAIN df : df[j]["temperature_c"] = Num(40)
                            /\ df[j]["air_pressure_hpa"] = Num(1050)

Parseable(c) == c.k \in {"ts", "dt"}

\* C2: a cleaned table has no row with a missing critical field (weather:
\* date_time, temperature_c; traffic: date_time, area, vehicle_count), and
\* it has no more rows than the raw table has rows with a timestamp that is
\* neither null nor an invalid text.
C2_NoMissingCritical ==
    Cleaned =>
        /\ \A i \in DOMAIN df :
              /\ df[i]["date_time"].k = "dt"
              /\ IF dom = "weather"
                 THEN ~IsNull(df[i]["temperature_c"])
                 ELSE ~IsNull(df[i]["area"]) /\ ~IsNull(df[i]["vehicle_count"])
        /\ Len(df) <= Cardinality({i \in DOMAIN raw : Parseable(raw[i]["date_time"])})

\* A raw table with one row whose timestamp is "Unknown" and one
\* well-formed row has been cleaned: the second row alone is left.
C2_Witness ==
    /\ Cleaned /\ pass = 1 /\ dom = "weather"
    /\ Len(raw) = 2
    /\ raw[1]["date_time"] = Str("Unknown")
    /\ raw[2] = WBase
    /\ Len(df) = 1
    /\ df[1]["weather_id"] = Num(5001)

\* C3: a cleaned table has no two rows equal on every field.
C3_NoDuplicateRows ==
    Cleaned => \A i, j \in DOMAIN df : i # j => df[i] # df[j]

\* C4: cleaning the output of the cleaner changes nothing: no row is
\* dropped and no value changes.
C4_Idempotent ==
    (Cleaned /\ pass = 2) => df = out1

(***************************************************************************)
(* Generators: the random streams                                          *)
(*                                                                         *)
(* random (Python) and np.random (numpy) are two process-wide generators.  *)
(* Neither script seeds them, so each starts a process in a state taken    *)
(* from the operating system.  A generator is a state in 0..RngMod-1 and   *)
(* a step function; a draw steps the state and reads the new state as the  *)
(* fraction state / RngMod of [0, 1).                                      *)
(***************************************************************************)
RngMod == 32

Adv(s) == (5 * s + 3) % RngMod

\* random.random() < pct / 100, read from the stepped state s.
Lt(s, pct) == s * 100 < pct * RngMod

\* random.randint(a, b), random.uniform(a, b) (kept to whole units),
\* random.choice(seq), random's randbelow(n): read from the stepped state s.
RandInt(s, a, b) == a + (s * (b - a + 1)) \div RngMod
Uniform(s, a, b) == a + (s * (b - a)) \div RngMod
Choice(s, seq) == seq[1 + (s * Len(seq)) \div RngMod]
RandBelow(s, n) == (s * n) \div RngMod

\* np.random.choice(labels, p=probs): cum holds the running sums of probs
\* in thousandths.
NpChoice(s, labels, cum) ==
    labels[CHOOSE i \in DOMAIN labels :
              /\ s * 1000 < cum[i] * RngMod
              /\ \A j \in 1..(i - 1) : ~(s * 1000 < cum[j] * RngMod)]

\* "has_issues and random.random() < pct/100": the draw is made only when
\* has_issues holds.
BernUngated(hi, s, pct) == [hit |-> Lt(Adv(s), pct), s |-> Adv(s)]
Bern(hi, s, pct) ==
    IF hi THEN [hit |-> Lt(Adv(s), pct), s |-> Adv(s)]
    ELSE [hit |-> FALSE, s |-> s]

\* if has_issues and random() < p1: outlier / elif has_issues and
\* random() < p2: null / else: the regular value.
Corrupt(hi, s, p1, p2) ==
    LET b1 == Bern(hi, s, p1)
        b2 == Bern(hi, b1.s, p2)
    IN  IF b1.hit THEN [which |-> "out", s |-> b1.s]
        ELSE IF b2.hit THEN [which |-> "null", s |-> b2.s]
        ELSE [which |-> "ok", s |-> b2.s]

(***************************************************************************)
(* Generators: one record of generate_weather_data                         *)
(***************************************************************************)
WeatherOffset == 5000
TrafficOffset == 9000

seasons(month) ==
    CASE month \in {12, 1, 2} -> "Winter"
      [] month \in {3, 4, 5} -> "Spring"
      [] month \in {6, 7, 8} -> "Summer"
      [] OTHER -> "Autumn"

weather_conditions == <<"Clear", "Rain", "Fog", "Storm", "Snow">>

GenIdZeroBased(hi, base_id, s) ==
    LET b == Bern(hi, s, 10)
    IN  [v |-> IF b.hit THEN Null ELSE Num(base_id - 1), s |-> b.s]
GenId(hi, base_id, s) ==
    LET b == Bern(hi, s, 10)
    IN  [v |-> IF b.hit THEN Null ELSE Num(base_id), s |-> b.s]

\* The date_time cell of a record whose timestamp is t.
GenDateTime(hi, t, s, invalid_formats, formats) ==
    IF ~hi THEN [v |-> Ts(FmtStd, t), s |-> s]
    ELSE LET s1 == Adv(s)
             s2 == Adv(s1)
         IN  IF Lt(s1, 5) THEN [v |-> Null, s |-> s1]
             ELSE IF Lt(s1, 10) THEN [v |-> Str(Choice(s2, invalid_formats)), s |-> s2]
             ELSE IF Lt(s1, 20) THEN [v |-> Ts(Choice(s2, formats), t), s |-> s2]
             ELSE [v |-> Ts(FmtStd, t), s |-> s1]

GenCity(hi, s) ==
    LET b == Bern(hi, s, 5)
    IN  [v |-> IF b.hit THEN Null ELSE Str("London"), s |-> b.s]

GenSeason(hi, month, s) ==
    LET b == Bern(hi, s, 10)
        s1 == Adv(b.s)
        s2 == Adv(s1)
    IN  IF ~b.hit THEN [v |-> Str(seasons(month)), s |-> b.s]
        ELSE IF Lt(s1, 50) THEN [v |-> Null, s |-> s1]
        ELSE [v |-> Str(Choice(s2, <<"Monsoon", "Fall", "Rainy", "Dry">>)), s |-> s2]

GenTemperature(hi, season, s) ==
    LET s1 == Adv(s)
        base_temp == CASE season = "Winter" -> Uniform(s1, -5, 15)
                       [] season = "Summer" -> Uniform(s1, 10, 35)
                       [] season = "Spring" -> Uniform(s1, 5, 25)
                       [] OTHER -> Uniform(s1, 5, 20)
        c == Corrupt(hi, s1, 5, 10)
        s2 == Adv(c.s)
    IN  CASE c.which = "out" -> [v |-> Num(Choice(s2, <<-30, 60, 100>>)), s |-> s2]
          [] c.which = "null" -> [v |-> Null, s |-> c.s]
          [] OTHER -> [v |-> Num(base_temp), s |-> c.s]

GenHumidity(hi, season, s) ==
    LET c == Corrupt(hi, s, 5, 10)
        s2 == Adv(c.s)
    IN  CASE c.which = "out" -> [v |-> Num(Choice(s2, <<-10, 150, 200>>)), s |-> s2]
          [] c.which = "null" -> [v |-> Null, s |-> c.s]
          [] OTHER -> [v |-> Num(IF season \in {"Winter", "Autumn"}
                                 THEN RandInt(s2, 60, 100)
                                 ELSE RandInt(s2, 20, 80)), s |-> s2]

GenRain(hi, season, s) ==
    LET c == Corrupt(hi, s, 5, 10)
        s2 == Adv(c.s)
    IN  CASE c.which = "out" -> [v |-> Num(Uniform(s2, 120, 300)), s |-> s2]
          [] c.which = "null" -> [v |-> Null, s |-> c.s]
          [] OTHER -> [v |-> Num(IF season \in {"Winter", "Autumn"}
                                 THEN Uniform(s2, 0, 30)
                                 ELSE Uniform(s2, 0, 10)), s |-> s2]

GenWind(hi, s) ==
    LET c == Corrupt(hi, s, 5, 10)
        s2 == Adv(c.s)
    IN  CASE c.which = "out" -> [v |-> Num(Uniform(s2, 200, 500)), s |-> s2]
          [] c.which = "null" -> [v |-> Null, s |-> c.s]
          [] OTHER -> [v |-> Num(Uniform(s2, 0, 80)), s |-> s2]

GenWeatherVisibility(hi, s) ==
    LET b1 == Bern(hi, s, 5)
        b2 == Bern(hi, b1.s, 5)
        b3 == Bern(hi, b2.s, 10)
    IN  IF b1.hit THEN [v |-> Num(50000), s |-> b1.s]
        ELSE IF b2.hit
        THEN [v |-> Str(Choice(Adv(b2.s), <<"Low", "Very Low", "High", "Unknown">>)),
              s |-> Adv(b2.s)]
        ELSE IF b3.hit THEN [v |-> Null, s |-> b3.s]
        ELSE [v |-> Num(RandInt(Adv(b3.s), 50, 10000)), s |-> Adv(b3.s)]

\* The only draw from numpy's generator: [v, s, np].
GenCondition(hi, season, s, np) ==
    LET b == Bern(hi, s, 10)
        adj_probs == CASE season = "Winter" -> <<400, 600, 700, 800, 1000>>
                       [] season = "Summer" -> <<700, 800, 850, 950, 1000>>
                       [] OTHER -> <<500, 750, 850, 950, 1000>>
    IN  IF b.hit THEN [v |-> Null, s |-> b.s, np |-> np]
        ELSE [v |-> Str(NpChoice(Adv(np), weather_conditions, adj_probs)),
              s |-> b.s, np |-> Adv(np)]

GenPressure(hi, s) ==
    LET b == Bern(hi, s, 10)
    IN  IF b.hit THEN [v |-> Null, s |-> b.s]
        ELSE [v |-> Num(Uniform(Adv(b.s), 950, 1050)), s |-> Adv(b.s)]

\* Record i of the loop, from the generator states s and np:
\* [row, issues, s, np].
WeatherRecord(i, s, np) ==
    LET s0 == Adv(s)
        hi == Lt(s0, 30)
        t == 60 * i
        season == seasons(MonthOf(t))
        id == GenId(hi, WeatherOffset + i + 1, s0)
        dt == GenDateTime(hi, t, id.s, <<"2099-13-40 25:61", "Unknown", "Invalid Date">>,
                          <<FmtDmy12, FmtIsoZ, FmtSlash>>)
        city == GenCity(hi, dt.s)
        sea == GenSeason(hi, MonthOf(t), city.s)
        temp == GenTemperature(hi, season, sea.s)
        hum == GenHumidity(hi, season, temp.s)
        rain == GenRain(hi, season, hum.s)
        wind == GenWind(hi, rain.s)
        vis == GenWeatherVisibility(hi, wind.s)
        cond == GenCondition(hi, season, vis.s, np)
        pres == GenPressure(hi, cond.s)
    IN  [row |-> MkRow(WCols, <<id.v, dt.v, city.v, sea.v, temp.v, hum.v, rain.v,
                                wind.v, vis.v, cond.v, pres.v>>),
         issues |-> [has_issues |-> hi, current_date |-> t],
         s |-> pres.s, np |-> cond.np]

(***************************************************************************)
(* Generators: one record of generate_traffic_data                         *)
(***************************************************************************)
london_areasOfCleaner == <<"Camden", "Chelsea", "Islington", "Southwark", "Kensington",
                           "Westminster", "Greenwich", "Hackney", "Lambeth">>
london_areas == <<"Camden", "Chelsea", "Islington", "Southwark", "Kensington",
                  "Westminster", "Greenwich", "Hackney", "Lambeth", "Tower Hamlets",
                  "Wandsworth", "Hammersmith", "Brent", "Ealing", "Hounslow">>

road_conditions == <<"Dry", "Wet", "Snowy", "Damaged">>

RushHour(hour) == (7 <= hour /\ hour <= 9) \/ (17 <= hour /\ hour <= 19)

GenArea(hi, s) ==
    LET b == Bern(hi, s, 10)
    IN  IF b.hit THEN [v |-> Null, s |-> b.s]
        ELSE [v |-> Str(Choice(Adv(b.s), london_areas)), s |-> Adv(b.s)]

\* [v, base, s]: the cell, base_vehicles, the generator state.
GenVehicles(hi, hour, s) ==
    LET s1 == Adv(s)
        base_vehicles == IF RushHour(hour) THEN RandInt(s1, 1000, 5000)
                         ELSE RandInt(s1, 100, 2000)
        c == Corrupt(hi, s1, 5, 10)
        s2 == Adv(c.s)
    IN  CASE c.which = "out" ->
                [v |-> Num(RandInt(s2, 20000, 50000)), base |-> base_vehicles, s |-> s2]
          [] c.which = "null" -> [v |-> Null, base |-> base_vehicles, s |-> c.s]
          [] OTHER -> [v |-> Num(base_vehicles), base |-> base_vehicles, s |-> c.s]

\* [v, base, s]: the cell, base_speed, the generator state.
GenSpeed(hi, base_vehicles, s) ==
    LET s1 == Adv(s)
        base_speed == IF base_vehicles > 3000 THEN Uniform(s1, 10, 40)
                      ELSE Uniform(s1, 40, 120)
        c == Corrupt(hi, s1, 5, 10)
        s2 == Adv(c.s)
    IN  CASE c.which = "out" ->
                [v |-> Num(Uniform(s2, -50, -1)), base |-> base_speed, s |-> s2]
          [] c.which = "null" -> [v |-> Null, base |-> base_speed, s |-> c.s]
          [] OTHER -> [v |-> Num(base_speed), base |-> base_speed, s |-> c.s]

\* [v, s, np]
GenAccidents(hi, hour, s, np) ==
    LET c == Corrupt(hi, s, 2, 10)
        s2 == Adv(c.s)
    IN  CASE c.which = "out" -> [v |-> Num(RandInt(s2, 50, 100)), s |-> s2, np |-> np]
          [] c.which = "null" -> [v |-> Null, s |-> c.s, np |-> np]
          [] OTHER ->
                [v |-> Num(IF RushHour(hour)
                           THEN NpChoice(Adv(np), <<0, 1, 2, 3, 4, 5>>,
                                         <<800, 900, 950, 980, 990, 1000>>)
                           ELSE NpChoice(Adv(np), <<0, 1, 2, 3>>,
                                         <<950, 980, 995, 1000>>)),
                 s |-> c.s, np |-> Adv(np)]

CongestionRuleBySpeed(base_vehicles, base_speed) ==
    IF base_speed < 30 THEN "High"
    ELSE IF base_speed < 50 THEN "Medium"
    ELSE "Low"
CongestionRule(base_vehicles, base_speed) ==
    IF base_vehicles > 4000 /\ base_speed < 30 THEN "High"
    ELSE IF base_vehicles > 2000 /\ base_speed < 50 THEN "Medium"
    ELSE "Low"

GenCongestion(hi, base_vehicles, base_speed, s) ==
    LET b1 == Bern(hi, s, 10)
        b2 == Bern(hi, b1.s, 5)
    IN  IF b1.hit THEN [v |-> Null, s |-> b1.s]
        ELSE IF b2.hit
        THEN [v |-> Str(Choice(Adv(b2.s), <<"Very High", "Low-Medium", "Heavy", "Light",
                                            "Severe">>)), s |-> Adv(b2.s)]
        ELSE [v |-> Str(CongestionRule(base_vehicles, base_speed)), s |-> b2.s]

GenRoad(hi, s) ==
    LET b == Bern(hi, s, 10)
    IN  IF b.hit THEN [v |-> Null, s |-> b.s]
        ELSE [v |-> Str(Choice(Adv(b.s), road_conditions)), s |-> Adv(b.s)]

GenTrafficVisibility(hi, s) ==
    LET c == Corrupt(hi, s, 5, 10)
        s2 == Adv(c.s)
    IN  CASE c.which = "out" -> [v |-> Num(Choice(s2, <<10, 100000>>)), s |-> s2]
          [] c.which = "null" -> [v |-> Null, s |-> c.s]
          [] OTHER -> [v |-> Num(RandInt(s2, 50, 10000)), s |-> s2]

\* current_date of record i, in minutes after start_date; the first variant
\* counts the hours from one.
TrafficDateFromOne(i, s) == 60 * (i + 1) + RandInt(s, 0, 59)
TrafficDate(i, s) == 60 * i + RandInt(s, 0, 59)

\* Record i of the loop: [row, issues, s, np].
TrafficRecord(i, s, np) ==
    LET s0 == Adv(s)
        hi == Lt(s0, 30)
        id == GenId(hi, TrafficOffset + i + 1, s0)
        sm == Adv(id.s)
        t == TrafficDate(i, sm)
        hour == (t \div 60) % 24
        dt == GenDateTime(hi, t, sm, <<"TBD", "2099-00-00 99:99", "Unknown", "N/A">>,
                          <<FmtDmy12, FmtIsoZ, FmtDMon>>)
        city == GenCity(hi, dt.s)
        area == GenArea(hi, city.s)
        veh == GenVehicles(hi, hour, area.s)
        speed == GenSpeed(hi, veh.base, veh.s)
        acc == GenAccidents(hi, hour, speed.s, np)
        cong == GenCongestion(hi, veh.base, speed.base, acc.s)
        road == GenRoad(hi, cong.s)
        vis == GenTrafficVisibility(hi, road.s)
    IN  [row |-> MkRow(TCols, <<id.v, dt.v, city.v, area.v, veh.v, speed.v, acc.v,
                                cong.v, road.v, vis.v>>),
         issues |-> [has_issues |-> hi, current_date |-> t,
                     base_vehicles |-> veh.base, base_speed |-> speed.base],
         s |-> vis.s, np |-> acc.np]

(***************************************************************************)
(* Generators: duplicates and shuffle                                      *)
(***************************************************************************)
IdCol(d) == IF d = "weather" THEN "weather_id" ELSE "traffic_id"

\* int(num_records * 0.05)
NumDuplicatesCeil(n) == (n * 5 + 99) \div 100
NumDuplicates(n) == (n * 5) \div 100

\* random.sample(range(n), k) for k <= 5: [v, s], v the indices (0-based).
\* Up to 21 items it draws from a shrinking pool, above it redraws until the
\* index is new.
RECURSIVE SamplePool(_, _, _, _)
SamplePool(pool, k, s, acc) ==
    IF k = 0 THEN [v |-> acc, s |-> s]
    ELSE LET s1 == Adv(s)
             n == Len(pool)
             j == 1 + RandBelow(s1, n)
         IN  SamplePool(SubSeq([pool EXCEPT ![j] = pool[n]], 1, n - 1), k - 1, s1,
                        Append(acc, pool[j]))

\* tries counts the redraws; a stream that has gone round without a new
\* index (it cannot when RngMod is a power of two) yields the least new one.
RECURSIVE SampleSetFrom(_, _, _, _, _)
SampleSetFrom(n, k, s, acc, tries) ==
    IF k = 0 THEN [v |-> acc, s |-> s]
    ELSE LET s1 == Adv(s)
             j == RandBelow(s1, n)
             least == CHOOSE m \in 0..(n - 1) :
                          m \notin Range(acc) /\ \A l \in 0..(m - 1) : l \in Range(acc)
         IN  IF j \notin Range(acc) THEN SampleSetFrom(n, k - 1, s1, Append(acc, j), 0)
             ELSE IF tries >= RngMod THEN SampleSetFrom(n, k - 1, s1, Append(acc, least), 0)
             ELSE SampleSetFrom(n, k, s1, acc, tries + 1)

SampleSet(n, k, s, acc) == SampleSetFrom(n, k, s, acc, 0)

SampleFirst(n, k, s) == [v |-> [i \in 1..k |-> 0], s |-> s]
Sample(n, k, s) ==
    IF n <= 21 THEN SamplePool([i \in 1..n |-> i - 1], k, s, <<>>)
    ELSE SampleSet(n, k, s, <<>>)

\* df.sample(frac=1, random_state=42): the permutation drawn by a generator
\* of its own, seeded with 42; it depends on the number of rows only.
ShuffleSeed == 42

RECURSIVE Permute(_, _)
Permute(seq, s) ==
    IF Len(seq) <= 1 THEN seq
    ELSE LET s1 == Adv(s)
             j == 1 + RandBelow(s1, Len(seq))
             rest == [i \in 1..(Len(seq) - 1) |-> IF i < j THEN seq[i] ELSE seq[i + 1]]
         IN  Append(Permute(rest, s1), seq[j])

Shuffle(seq) == Permute(seq, ShuffleSeed % RngMod)

(***************************************************************************)
(* Generators: generate_weather_data / generate_traffic_data               *)
(***************************************************************************)
MaxN == 41

\* The values of num_records the calls are made with: the least ones and
\* those next to a multiple of 20, where the number of duplicates changes.
NumRecords == {n \in 0..MaxN : n <= 2 \/ n % 20 \in {0, 1, 19}}
MaxNpSeed == 1

GenInit ==
    /\ gdom \in {"weather", "traffic"}
    /\ N \in NumRecords
    /\ rng \in 0..(RngMod - 1)
    /\ nprng \in 0..MaxNpSeed
    /\ gi = 0
    /\ data = <<>>
    /\ issues = <<>>
    /\ dupIdx = <<>>
    /\ dups = <<>>
    /\ didx = 0
    /\ gdf = <<>>
    /\ gpc = "loop"
    /\ run = 1
    /\ gout1 = <<>>
    /\ bronze = NoObjects
    /\ silver = NoObjects
    /\ gold = NoObjects
    /\ CleanIdle
    /\ MergeIdle

Record(d, i, s, np) == IF d = "weather" THEN WeatherRecord(i, s, np) ELSE TrafficRecord(i, s, np)

\* One iteration of "for i in range(num_records)".
GenRecord ==
    /\ gpc = "loop"
    /\ gi < N
    /\ LET r == Record(gdom, gi, rng, nprng)
       IN  /\ data' = Append(data, r.row)
           /\ issues' = Append(issues, r.issues)
           /\ rng' = r.s
           /\ nprng' = r.np
    /\ gi' = gi + 1
    /\ UNCHANGED <<gdom, N, dupIdx, dups, didx, gdf, gpc, run, gout1>>
    /\ UNCHANGED <<cvars, mvars, svars>>

\* df = pd.DataFrame(data); duplicate_indices = random.sample(...);
\* duplicates = df.iloc[duplicate_indices].copy()
SampleDuplicates ==
    /\ gpc = "loop"
    /\ gi = N
    /\ LET smp == Sample(N, NumDuplicates(N), rng)
       IN  /\ dupIdx' = smp.v
           /\ dups' = [k \in 1..Len(smp.v) |-> data[smp.v[k] + 1]]
           /\ rng' = smp.s
    /\ didx' = 0
    /\ gpc' = "modify"
    /\ UNCHANGED <<gdom, N, nprng, gi, data, issues, gdf, run, gout1>>
    /\ UNCHANGED <<cvars, mvars, svars>>

\* The identifiers random.choice draws from: data[id][:100].
FirstIds == [k \in 1..(IF Len(data) < 100 THEN Len(data) ELSE 100) |-> data[k][IdCol(gdom)]]

\* One iteration of "for idx in range(len(duplicates))".
ModifyDuplicate ==
    /\ gpc = "modify"
    /\ didx < Len(dups)
    /\ LET s1 == Adv(rng)
           s2 == Adv(s1)
       IN  IF Lt(s1, 50)
           THEN /\ dups' = [dups EXCEPT ![didx + 1][IdCol(gdom)] = Choice(s2, FirstIds)]
                /\ rng' = s2
           ELSE /\ dups' = dups
                /\ rng' = s1
    /\ didx' = didx + 1
    /\ UNCHANGED <<gdom, N, nprng, gi, data, issues, dupIdx, gdf, gpc, run, gout1>>
    /\ UNCHANGED <<cvars, mvars, svars>>

\* df = pd.concat([df, duplicates]); df = df.sample(frac=1, random_state=42);
\* return df
ConcatShuffle ==
    /\ gpc = "modify"
    /\ didx = Len(dups)
    /\ gdf' = Shuffle(data \o dups)
    /\ gpc' = "done"
    /\ UNCHANGED <<gdom, N, rng, nprng, gi, data, issues, dupIdx, dups, didx, run, gout1>>
    /\ UNCHANGED <<cvars, mvars, svars>>

\* The function is called again with the same num_records in the same
\* process: the two generators go on from the states the first call left.
SecondCall ==
    /\ gpc = "done"
    /\ run = 1
    /\ gout1' = gdf
    /\ run' = 2
    /\ gi' = 0
    /\ data' = <<>>
    /\ issues' = <<>>
    /\ dupIdx' = <<>>
    /\ dups' = <<>>
    /\ didx' = 0
    /\ gdf' = <<>>
    /\ gpc' = "loop"
    /\ UNCHANGED <<gdom, N, rng, nprng>>
    /\ UNCHANGED <<cvars, mvars, svars>>

GenNext ==
    \/ GenRecord \/ SampleDuplicates \/ ModifyDuplicate \/ ConcatShuffle \/ SecondCall

SpecGen == GenInit /\ [][GenNext]_vars

(***************************************************************************)
(* Generators: properties                                                  *)
(***************************************************************************)
Generated == gpc = "done"

\* C5 (as claimed): the call returns N + ceil(0.05 * N) rows.
C5_RowCountCeil ==
    Generated => Len(gdf) * 20 >= N * 21 /\ (Len(gdf) - 1) * 20 < N * 21

\* C5 (amended): the call returns N + floor(0.05 * N) rows, the N base
\* records and one duplicate for every full 20 of them.
C5_RowCountFloor ==
    Generated => Len(gdf) = N + (N \div 20)

\* A call has returned with a duplicate injected, for an N where the floor
\* and the ceiling of 0.05 * N differ.
C5_Witness ==
    /\ Generated
    /\ N > 20 /\ N % 20 # 0
    /\ Len(dups) >= 1
    /\ Len(gdf) = N + Len(dups)

\* C6: a second call with the same arguments returns the dataset the first
\* call returned.
C6_Reproducible ==
    (Generated /\ run = 2) => gdf = gout1

(***************************************************************************)
(* Merge: frame operations of pandas                                       *)
(***************************************************************************)
\* frame[name] = f(row): a new column goes last, an existing one is
\* overwritten in place.
SetCol(f, name, F(_)) ==
    [cols |-> IF name \in Range(f.cols) THEN f.cols ELSE Append(f.cols, name),
     rows |-> [i \in DOMAIN f.rows |->
                 [c \in Range(f.cols) \cup {name} |->
                     IF c = name THEN F(f.rows[i]) ELSE f.rows[i][c]]]]

\* frame.drop(columns=names)
DropCols(f, names) ==
    [cols |-> SelectSeq(f.cols, LAMBDA c : c \notin names),
     rows |-> [i \in DOMAIN f.rows |-> [c \in Range(f.cols) \ names |-> f.rows[i][c]]]]

\* frame.rename(columns={old: new})
Rename(f, old, new) ==
    [cols |-> [i \in DOMAIN f.cols |-> IF f.cols[i] = old THEN new ELSE f.cols[i]],
     rows |-> [i \in DOMAIN f.rows |->
                 [c \in (Range(f.cols) \ {old}) \cup {new} |->
                     IF c = new THEN f.rows[i][old] ELSE f.rows[i][c]]]]

\* frame[names]: the columns named, in the order named.
SelectCols(f, names) ==
    [cols |-> names,
     rows |-> [i \in DOMAIN f.rows |-> [c \in Range(names) |-> f.rows[i][c]]]]

\* frame.loc[:, ~frame.columns.duplicated()]: the first column of each name.
FirstOfEachName(f) ==
    [cols |-> SelectSeq([i \in DOMAIN f.cols |->
                            IF \E j \in 1..(i - 1) : f.cols[j] = f.cols[i]
                            THEN "" ELSE f.cols[i]], LAMBDA c : c # ""),
     rows |-> f.rows]

\* Series.dt.floor('H')
FloorHour(c) == IF IsNull(c) THEN c ELSE Dt((c.n \div 60) * 60)

JoinKeys == <<"hour", "city">>

KeyOfCityOnly(row) == <<row["city"]>>
KeyOf(row) == [k \in DOMAIN JoinKeys |-> row[JoinKeys[k]]]

\* The names pd.merge gives the columns: a column of both frames that is
\* no key gets the suffix of its side.
LeftName(l, r, c) ==
    IF c \notin Range(JoinKeys) /\ c \in Range(r.cols) THEN c \o "_weather" ELSE c
RightName(l, r, c) ==
    IF c \notin Range(JoinKeys) /\ c \in Range(l.cols) THEN c \o "_traffic" ELSE c

MergedCols(l, r) ==
    LET rest == SelectSeq(r.cols, LAMBDA c : c \notin Range(JoinKeys))
    IN  [i \in DOMAIN l.cols |-> LeftName(l, r, l.cols[i])]
        \o [i \in DOMAIN rest |-> RightName(l, r, rest[i])]

\* how='inner': the pairs <<i, j>> of a left row and a right row with equal
\* keys, in the order of the left rows and, for one left row, of the right
\* rows.
RECURSIVE JoinFrom(_, _, _)
JoinFrom(l, r, i) ==
    IF i > Len(l.rows) THEN <<>>
    ELSE SelectSeq([j \in DOMAIN r.rows |-> <<i, j>>],
                   LAMBDA p : KeyOf(l.rows[i]) = KeyOf(r.rows[p[2]]))
         \o JoinFrom(l, r, i + 1)

JoinPairsCross(l, r) ==
    IF Len(l.rows) = 0 \/ Len(r.rows) = 0 THEN <<>>
    ELSE [k \in 1..(Len(l.rows) * Len(r.rows)) |->
             <<1 + ((k - 1) \div Len(r.rows)), 1 + ((k - 1) % Len(r.rows))>>]
JoinPairsFirstMatch(l, r) ==
    LET all == JoinFrom(l, r, 1)
    IN  SelectSeq(all, LAMBDA p : \A q \in Range(all) : q[1] = p[1] => q[2] >= p[2])
JoinPairs(l, r) == JoinFrom(l, r, 1)

MergedRow(l, r, p) ==
    [c \in Range(MergedCols(l, r)) |->
        IF \E b \in Range(l.cols) : LeftName(l, r, b) = c
        THEN l.rows[p[1]][CHOOSE b \in Range(l.cols) : LeftName(l, r, b) = c]
        ELSE r.rows[p[2]][CHOOSE b \in Range(r.cols) : RightName(l, r, b) = c]]

\* pd.merge(l, r, left_on=['hour', 'city'], right_on=['hour', 'city'],
\*          how='inner', suffixes=('_weather', '_traffic'))
Merge(l, r) ==
    LET ps == JoinPairs(l, r)
    IN  [cols |-> MergedCols(l, r),
         rows |-> [k \in DOMAIN ps |-> MergedRow(l, r, ps[k])]]

\* The names of the columns of the two inputs.
BaseNames == Range(weather_df.cols) \cup Range(traffic_df.cols)

\* col.endswith(suffix), col.replace(suffix, ''), 'weather' in col: decided
\* for the names a merge of the two inputs can hold.
EndsWith(col, suffix) == \E b \in BaseNames : col = b \o suffix
\* name.replace(suffix, ''): every occurrence goes, wherever it stands.
Without(name, suffix) ==
    IF name = "feed_weather_code" /\ suffix = "_weather" THEN "feed_code" ELSE name
BaseOf(col, suffix) == Without(CHOOSE b \in BaseNames : col = b \o suffix, suffix)
WeatherWords == {"weather_id", "weather_condition", "feed_weather_code"}
HasWeather(col) ==
    \/ EndsWith(col, "_weather")
    \/ col \in WeatherWords
    \/ \E b \in WeatherWords : col = b \o "_traffic"

\* The body of "for col in cols_with_suffix" for the columns todo.
RECURSIVE ResolveCols(_, _, _)
ResolveCols(f, todo, suffix) ==
    IF todo = <<>> THEN f
    ELSE LET col == Head(todo)
             base_col == BaseOf(col, suffix)
             other_col == base_col \o (IF suffix = "_weather" THEN "_traffic" ELSE "_weather")
             kept == IF HasWeather(col)
                     THEN SetCol(f, base_col, LAMBDA row : row[col])
                     ELSE f
         IN  IF other_col \in Range(f.cols)
             THEN ResolveCols(DropCols(kept, {col, other_col}), Tail(todo), suffix)
             ELSE ResolveCols(f, Tail(todo), suffix)

\* One pass of "for suffix in duplicate_suffixes".
ResolveSuffix(f, suffix) ==
    ResolveCols(f, SelectSeq(f.cols, LAMBDA c : EndsWith(c, suffix)), suffix)

\* The weather-only and traffic-only column lists of final_columns; the first
\* variant leaves air_pressure_hpa out.
weather_uniqueNoPressure == <<"season", "temperature_c", "humidity", "rain_mm",
                              "wind_speed_kmh", "weather_condition">>
weather_unique == <<"season", "temperature_c", "humidity", "rain_mm",
                    "wind_speed_kmh", "weather_condition", "air_pressure_hpa">>
traffic_unique == <<"area", "vehicle_count", "avg_speed_kmh",
                    "accident_count", "congestion_level", "road_condition">>

\* The list final_columns built from the columns of frame f.
FinalColumnsNoVisibility(f) ==
    SelectSeq(<<"date_time", "city">> \o weather_unique \o traffic_unique,
              LAMBDA c : c \in Range(f.cols))
FinalColumns(f) ==
    SelectSeq(<<"date_time", "city">> \o weather_unique \o traffic_unique
              \o <<"visibility_m">>,
              LAMBDA c : c \in Range(f.cols))

(***************************************************************************)
(* Merge: the cleaned inputs it is run on                                  *)
(***************************************************************************)
MaxMergeRows == 2

CleanW(id, t, temp, vis) ==
    MkRow(WCols, <<Num(id), Dt(t), Str("London"), Str("Winter"), Num(temp),
                   Num(70), Num(5), Num(20), vis, Str("Clear"), Num(1000)>>)

CleanT(id, t, area, veh, vis) ==
    MkRow(TCols, <<Num(id), Dt(t), Str("London"), Str(area), Num(veh), Num(60),
                   Num(0), Str("Low"), Str("Dry"), vis>>)

\* Cleaned weather rows: two of the hour 00:00 (a record and its duplicate
\* with another identifier), one of 01:00, one of 02:00.
CleanWeatherRows ==
    {CleanW(5001, 0, 12, Num(5000)), CleanW(5002, 0, 12, Num(5000)),
     CleanW(5003, 60, 40, Num(20000)), CleanW(5004, 120, -10, Null)}

\* Cleaned traffic rows: two of the hour 00:00, one of 01:00, one of 03:00.
CleanTrafficRows ==
    {CleanT(9001, 30, "Camden", 1500, Num(9000)),
     CleanT(9002, 45, "Chelsea", 10000, Num(50)),
     CleanT(9003, 90, "Hackney", 0, Null),
     CleanT(9004, 185, "Lambeth", 700, Num(10000))}

\* The names of a further column that both inputs may carry ("": none).
ExtraColumns == {"", "source", "feed_weather_code"}

\* A frame of rows over cols; with extra, a further column of that name
\* that both inputs then carry.
Frame(cols, rows, extra, tag) ==
    IF extra # ""
    THEN [cols |-> Append(cols, extra),
          rows |-> [i \in DOMAIN rows |->
                      [c \in Range(cols) \cup {extra} |->
                          IF c = extra THEN Str(tag) ELSE rows[i][c]]]]
    ELSE [cols |-> cols, rows |-> rows]

Tables(rows) == UNION {[1..n -> rows] : n \in 0..MaxMergeRows}

(***************************************************************************)
(* Merge: main() of Phase 4/Data Merge.py                                  *)
(***************************************************************************)
\* The state after the two frames are read from the silver bucket.
MergeInit ==
    /\ \E extra \in ExtraColumns, w \in Tables(CleanWeatherRows), t \in Tables(CleanTrafficRows) :
          /\ weather_df = Frame(WCols, w, extra, "weather_feed")
          /\ traffic_df = Frame(TCols, t, extra, "traffic_feed")
          /\ silver = (CleanedObject("weather") :> weather_df)
                        @@ (CleanedObject("traffic") :> traffic_df)
    /\ bronze = (RawObject("weather") :> <<WBase>>) @@ (RawObject("traffic") :> <<TBase>>)
    /\ gold = NoObjects
    /\ merged_df = EmptyFrame
    /\ pairs = <<>>
    /\ final_df = EmptyFrame
    /\ mpc = "prepare"
    /\ CleanIdle
    /\ GenIdle

\* date_time = pd.to_datetime(date_time); hour = date_time.dt.floor('H')
AddHour(f) ==
    SetCol(SetCol(f, "date_time", LAMBDA row : ParseEach(row["date_time"])),
           "hour", LAMBDA row : FloorHour(ParseEach(row["date_time"])))

\* As M_Prepare, but the frames with the hour column are written back over
\* the cleaned objects.
M_PrepareInPlace ==
    /\ mpc = "prepare"
    /\ weather_df' = AddHour(weather_df)
    /\ traffic_df' = AddHour(traffic_df)
    /\ silver' = (CleanedObject("weather") :> weather_df')
                   @@ (CleanedObject("traffic") :> traffic_df')
    /\ mpc' = "merge"
    /\ UNCHANGED <<merged_df, pairs, final_df, bronze, gold>>
    /\ UNCHANGED <<cvars, gvars>>

M_Prepare ==
    /\ mpc = "prepare"
    /\ weather_df' = AddHour(weather_df)
    /\ traffic_df' = AddHour(traffic_df)
    /\ mpc' = "merge"
    /\ UNCHANGED <<merged_df, pairs, final_df>>
    /\ UNCHANGED <<cvars, gvars, svars>>

M_Merge ==
    /\ mpc = "merge"
    /\ merged_df' = Merge(weather_df, traffic_df)
    /\ pairs' = JoinPairs(weather_df, traffic_df)
    /\ mpc' = "drop_hour"
    /\ UNCHANGED <<weather_df, traffic_df, final_df>>
    /\ UNCHANGED <<cvars, gvars, svars>>

M_DropHour ==
    /\ mpc = "drop_hour"
    /\ merged_df' = IF "hour" \in Range(merged_df.cols)
                    THEN DropCols(merged_df, {"hour"}) ELSE merged_df
    /\ mpc' = "city"
    /\ UNCHANGED <<weather_df, traffic_df, pairs, final_df>>
    /\ UNCHANGED <<cvars, gvars, svars>>

M_City ==
    /\ mpc = "city"
    /\ merged_df' = IF {"city_traffic", "city_weather"} \subseteq Range(merged_df.cols)
                    THEN Rename(DropCols(merged_df, {"city_traffic"}), "city_weather", "city")
                    ELSE merged_df
    /\ mpc' = "date_time"
    /\ UNCHANGED <<weather_df, traffic_df, pairs, final_df>>
    /\ UNCHANGED <<cvars, gvars, svars>>

ResolveDateTime(f) ==
    IF {"date_time_traffic", "date_time_weather"} \subseteq Range(f.cols)
    THEN Rename(DropCols(f, {"date_time_traffic"}), "date_time_weather", "date_time")
    ELSE f

M_DateTime ==
    /\ mpc = "date_time"
    /\ merged_df' = ResolveDateTime(merged_df)
    /\ mpc' = "visibility"
    /\ UNCHANGED <<weather_df, traffic_df, pairs, final_df>>
    /\ UNCHANGED <<cvars, gvars, svars>>

ResolveVisibilityTraffic(f) ==
    IF {"visibility_m_weather", "visibility_m_traffic"} \subseteq Range(f.cols)
    THEN DropCols(SetCol(f, "visibility_m", LAMBDA row : row["visibility_m_traffic"]),
                  {"visibility_m_weather", "visibility_m_traffic"})
    ELSE f
ResolveVisibility(f) ==
    IF {"visibility_m_weather", "visibility_m_traffic"} \subseteq Range(f.cols)
    THEN DropCols(SetCol(f, "visibility_m", LAMBDA row : row["visibility_m_weather"]),
                  {"visibility_m_weather", "visibility_m_traffic"})
    ELSE f

M_Visibility ==
    /\ mpc = "visibility"
    /\ merged_df' = ResolveVisibility(merged_df)
    /\ mpc' = "suffixes"
    /\ UNCHANGED <<weather_df, traffic_df, pairs, final_df>>
    /\ UNCHANGED <<cvars, gvars, svars>>

\* for suffix in ['_weather', '_traffic']: ...
M_Suffixes ==
    /\ mpc = "suffixes"
    /\ \E passed \in {ResolveSuffix(merged_df, "_weather")} :
          merged_df' = ResolveSuffix(passed, "_traffic")
    /\ mpc' = "select"
    /\ UNCHANGED <<weather_df, traffic_df, pairs, final_df>>
    /\ UNCHANGED <<cvars, gvars, svars>>

\* final_df = merged_df[final_columns].copy();
\* final_df = final_df.loc[:, ~final_df.columns.duplicated()]
\* final_df.to_parquet(local_file); client.fput_object("gold", ...)
M_Select ==
    /\ mpc = "select"
    /\ final_df' = FirstOfEachName(SelectCols(merged_df, FinalColumns(merged_df)))
    /\ gold' = ("merged_dataset.parquet" :> final_df') @@ gold
    /\ mpc' = "done"
    /\ UNCHANGED <<weather_df, traffic_df, merged_df, pairs, bronze, silver>>
    /\ UNCHANGED <<cvars, gvars>>

MergeNext ==
    \/ M_Prepare \/ M_Merge \/ M_DropHour \/ M_City \/ M_DateTime
    \/ M_Visibility \/ M_Suffixes \/ M_Select

SpecMerge == MergeInit /\ [][MergeNext]_vars

(***************************************************************************)
(* The stages that read and write the object store: a run of the Cleaner   *)
(* or a run of the Merge                                                   *)
(***************************************************************************)
StagesInit == CleanInit \/ MergeInit
StagesNext == CleanNext \/ MergeNext
SpecStages == StagesInit /\ [][StagesNext]_vars

(***************************************************************************)
(* Merge: properties                                                       *)
(***************************************************************************)
Merged == mpc = "done"

FinalSchema ==
    <<"date_time", "city", "season", "temperature_c", "humidity", "rain_mm",
      "wind_speed_kmh", "weather_condition", "air_pressure_hpa", "area",
      "vehicle_count", "avg_speed_kmh", "accident_count", "congestion_level",
      "road_condition", "visibility_m">>

\* C7: the columns of the merged dataset are exactly the final schema, in
\* its order: no name twice, none with a _weather or _traffic suffix, no
\* identifier column, no hour column.
C7_FinalSchema ==
    Merged =>
        /\ final_df.cols = FinalSchema
        /\ \A i, j \in DOMAIN final_df.cols : i # j => final_df.cols[i] # final_df.cols[j]
        /\ \A c \in Range(final_df.cols) :
              /\ c \notin {"hour", "weather_id", "traffic_id"}
              /\ ~EndsWith(c, "_weather")
              /\ ~EndsWith(c, "_traffic")
        /\ \A i \in DOMAIN final_df.rows : DOMAIN final_df.rows[i] = Range(FinalSchema)

\* Two inputs of the declared schemas with a common hour have been merged:
\* the merge gave suffixed names to date_time and visibility_m, and the
\* final frame has a row.
C7_Witness ==
    /\ Merged
    /\ weather_df.cols = Append(WCols, "hour")
    /\ traffic_df.cols = Append(TCols, "hour")
    /\ Len(final_df.rows) >= 1
    /\ "traffic_id" \in Range(merged_df.cols)
    /\ "date_time_weather" \notin Range(merged_df.cols)

\* C8 (as claimed): the merged dataset has exactly 14 columns.
C8_FourteenColumns ==
    Merged => Len(final_df.cols) = 14

\* C8 (amended): the merged dataset has exactly 16 columns, all of
\* different names.
C8_SixteenColumns ==
    Merged => Len(final_df.cols) = 16 /\ Cardinality(Range(final_df.cols)) = 16

\* Two inputs that both carry a further column have been merged into a
\* frame with rows.
C8_Witness ==
    /\ Merged
    /\ "source" \in Range(weather_df.cols) \cap Range(traffic_df.cols)
    /\ Len(final_df.rows) >= 2

KeysOf(f) == {KeyOf(f.rows[i]) : i \in DOMAIN f.rows}
CommonKeys == KeysOf(weather_df) \cap KeysOf(traffic_df)
RowsWithKey(f, key) == {i \in DOMAIN f.rows : KeyOf(f.rows[i]) = key}
OneRowPerKey(f) == \A key \in KeysOf(f) : Cardinality(RowsWithKey(f, key)) = 1

\* C9 (as claimed): the merged dataset has at most as many rows as there
\* are distinct (hour, city) keys occurring in both inputs.
C9_RowsAtMostCommonKeys ==
    Merged => Len(final_df.rows) <= Cardinality(CommonKeys)

\* C9 (amended): when no (hour, city) key occurs in more than one row of
\* the weather input or of the traffic input, the merged dataset has at
\* most as many rows as there are distinct keys occurring in both inputs.
C9_RowsAtMostCommonKeysUnique ==
    (Merged /\ OneRowPerKey(weather_df) /\ OneRowPerKey(traffic_df))
        => Len(final_df.rows) <= Cardinality(CommonKeys)

\* Two weather rows and two traffic rows, no key twice on a side, one key in
\* common: one merged row.
C9_Witness ==
    /\ Merged
    /\ Len(weather_df.rows) = 2 /\ Len(traffic_df.rows) = 2
    /\ OneRowPerKey(weather_df) /\ OneRowPerKey(traffic_df)
    /\ Cardinality(CommonKeys) = 1
    /\ Len(final_df.rows) = 1

\* C10: the merge is an inner equi-join on (hour, city): every merged row
\* comes from a weather row and a traffic row with equal keys, for every key
\* there are (weather rows of the key) x (traffic rows of the key) merged
\* rows, each pair once, and a row whose key the other side lacks is in no
\* merged row.
C10_InnerEquiJoin ==
    mpc \in {"drop_hour", "city", "date_time", "visibility", "suffixes", "select", "done"} =>
        /\ Len(merged_df.rows) = Len(pairs)
        /\ mpc = "done" => Len(final_df.rows) = Len(pairs)
        /\ \A k \in DOMAIN pairs :
              /\ pairs[k][1] \in DOMAIN weather_df.rows
              /\ pairs[k][2] \in DOMAIN traffic_df.rows
              /\ FloorHour(weather_df.rows[pairs[k][1]]["date_time"])
                    = FloorHour(traffic_df.rows[pairs[k][2]]["date_time"])
              /\ weather_df.rows[pairs[k][1]]["city"] = traffic_df.rows[pairs[k][2]]["city"]
        /\ \A k1, k2 \in DOMAIN pairs : k1 # k2 => pairs[k1] # pairs[k2]
        /\ \A key \in KeysOf(weather_df) \cup KeysOf(traffic_df) :
              Cardinality({k \in DOMAIN pairs : KeyOf(weather_df.rows[pairs[k][1]]) = key})
                  = Cardinality(RowsWithKey(weather_df, key))
                    * Cardinality(RowsWithKey(traffic_df, key))

\* Two weather rows and two traffic rows of the same hour give four merged
\* rows.
C10_Witness ==
    /\ Merged
    /\ Len(weather_df.rows) = 2 /\ Len(traffic_df.rows) = 2
    /\ Cardinality(KeysOf(weather_df) \cup KeysOf(traffic_df)) = 1
    /\ weather_df.rows[1] # weather_df.rows[2]
    /\ Len(final_df.rows) = 4

\* C11: in every merged row date_time and visibility_m are those of the
\* weather row of the pair, the weather-only fields are those of the weather
\* row and the traffic-only fields are those of the traffic row.
C11_WeatherSidePrecedence ==
    Merged =>
        /\ Len(final_df.rows) = Len(pairs)
        /\ \A k \in DOMAIN final_df.rows :
              LET w == weather_df.rows[pairs[k][1]]
                  t == traffic_df.rows[pairs[k][2]]
              IN  /\ final_df.rows[k]["date_time"] = w["date_time"]
                  /\ final_df.rows[k]["visibility_m"] = w["visibility_m"]
                  /\ \A c \in Range(weather_unique) : final_df.rows[k][c] = w[c]
                  /\ \A c \in Range(traffic_unique) : final_df.rows[k][c] = t[c]

\* A merged row whose weather row and traffic row differ in date_time and in
\* visibility_m.
C11_Witness ==
    /\ Merged
    /\ \E k \in DOMAIN final_df.rows :
          LET w == weather_df.rows[pairs[k][1]]
              t == traffic_df.rows[pairs[k][2]]
          IN  /\ w["date_time"] # t["date_time"]
              /\ w["visibility_m"] # t["visibility_m"]
              /\ ~IsNull(w["visibility_m"]) /\ ~IsNull(t["visibility_m"])
              /\ final_df.rows[k]["visibility_m"] = w["visibility_m"]

\* The (hour, city) keys of the rows of a frame, from its date_time column.
HourCityKeys(f) ==
    {<<FloorHour(ParseEach(f.rows[i]["date_time"])), f.rows[i]["city"]>> :
        i \in DOMAIN f.rows}
EmptyJoin == HourCityKeys(weather_df) \cap HourCityKeys(traffic_df) = {}

\* C12: when an input is empty or the two inputs have no (hour, city) key in
\* common, every step of the merge can be taken, the join has no rows and
\* the final dataset has the final schema and zero rows.
C12_EmptyJoinResult ==
    EmptyJoin =>
        /\ ~Merged => ENABLED MergeNext
        /\ mpc \notin {"prepare", "merge"} => Len(merged_df.rows) = 0
        /\ Merged => (Len(final_df.rows) = 0 /\ final_df.cols = FinalSchema)

\* Two weather rows and two traffic rows without a common hour have been
\* merged into zero rows.
C12_Witness ==
    /\ Merged
    /\ Len(weather_df.rows) = 2 /\ Len(traffic_df.rows) = 2
    /\ EmptyJoin
    /\ Len(final_df.rows) = 0

\* An empty weather input has been merged with a traffic input of two rows.
C12_WitnessEmptyInput ==
    /\ Merged
    /\ Len(weather_df.rows) = 0 /\ Len(traffic_df.rows) = 2
    /\ Len(final_df.rows) = 0

(***************************************************************************)
(* Cleaner: further properties                                             *)
(***************************************************************************)
\* C13: in a cleaned table every categorical cell holds a label of the
\* valid set of its column.
C13_CategoricalValid ==
    Cleaned =>
        \A i \in DOMAIN df :
            IF dom = "weather"
            THEN /\ InLabels(df[i]["weather_condition"],
                             {"Clear", "Rain", "Fog", "Storm", "Snow"})
                 /\ InLabels(df[i]["season"], {"Winter", "Spring", "Summer", "Autumn"})
            ELSE /\ InLabels(df[i]["congestion_level"], {"Low", "Medium", "High"})
                 /\ InLabels(df[i]["road_condition"], {"Dry", "Wet", "Snowy", "Damaged"})
                 /\ InLabels(df[i]["area"], valid_areas)

\* A raw traffic table with an area outside the list in one row and an
\* invalid congestion level and no road condition in the other has been
\* cleaned, and both rows are kept.
C13_Witness ==
    /\ Cleaned /\ pass = 1 /\ dom = "traffic"
    /\ Len(raw) = 2 /\ Len(df) = 2
    /\ raw[1]["area"] = Str("Brent")
    /\ raw[2]["congestion_level"] = Str("Heavy")
    /\ IsNull(raw[2]["road_condition"])

\* new is old clamped into lo..hi, when old is a number or the text of one.
Clamped(old, new, lo, hi) ==
    old.k \in {"num", "numstr"} =>
        new = Num(IF old.n > hi THEN hi ELSE IF old.n < lo THEN lo ELSE old.n)

\* C14: a step that fixes numeric columns keeps every row and turns every
\* cell that parses as a number into that number clamped into the interval
\* of the column (above -> upper bound, below -> lower bound, inside ->
\* unchanged); and the critical-field filter keeps every row whose critical
\* fields are set, so a clamped value never costs the row.
C14_ClampedNotDiscarded ==
    [][/\ cpc = "w_numeric" =>
            /\ Len(df') = Len(df)
            /\ \A i \in DOMAIN df :
                  /\ Clamped(df[i]["temperature_c"], df'[i]["temperature_c"], -10, 40)
                  /\ Clamped(df[i]["humidity"], df'[i]["humidity"], 0, 100)
                  /\ Clamped(df[i]["rain_mm"], df'[i]["rain_mm"], 0, 100)
                  /\ Clamped(df[i]["wind_speed_kmh"], df'[i]["wind_speed_kmh"], 0, 150)
                  /\ Clamped(df[i]["visibility_m"], df'[i]["visibility_m"], 50, 20000)
                  /\ Clamped(df[i]["air_pressure_hpa"], df'[i]["air_pressure_hpa"], 950, 1050)
       /\ cpc = "t_numeric" =>
            /\ Len(df') = Len(df)
            /\ \A i \in DOMAIN df :
                  /\ Clamped(df[i]["vehicle_count"], df'[i]["vehicle_count"], 0, 10000)
                  /\ Clamped(df[i]["avg_speed_kmh"], df'[i]["avg_speed_kmh"], 0, 120)
                  /\ Clamped(df[i]["accident_count"], df'[i]["accident_count"], 0, 20)
       /\ cpc = "t_visibility" =>
            /\ Len(df') = Len(df)
            /\ \A i \in DOMAIN df :
                  Clamped(df[i]["visibility_m"], df'[i]["visibility_m"], 50, 10000)
       /\ cpc \in {"w_dropna", "t_dropna"} =>
            \A i \in DOMAIN df :
                (\A c \in (IF dom = "weather" THEN {"date_time", "temperature_c"}
                            ELSE {"date_time", "area", "vehicle_count"}) :
                     ~IsNull(df[i][c]))
                    => df[i] \in Range(df')
      ]_vars

\* A raw traffic row with avg_speed_kmh -30 and vehicle_count -5 has been
\* cleaned: the row is kept with avg_speed_kmh 0 and vehicle_count 0, and
\* the avg_speed_kmh 60 of the well-formed row beside it is unchanged.
C14_Witness ==
    /\ Cleaned /\ pass = 1 /\ dom = "traffic"
    /\ Len(raw) = 2 /\ Len(df) = 2
    /\ raw[1]["avg_speed_kmh"] = Num(-30) /\ df[1]["avg_speed_kmh"] = Num(0)
    /\ raw[1]["vehicle_count"] = Num(-5) /\ df[1]["vehicle_count"] = Num(0)
    /\ raw[2]["avg_speed_kmh"] = Num(60) /\ df[2]["avg_speed_kmh"] = Num(60)

\* C15: the timestamp step turns every text that encodes a point in time, in
\* any of the five formats, into that point in time.
C15_EveryFormatCoerced ==
    [][cpc = "datetime" =>
          /\ Len(df') = Len(df)
          /\ \A i \in DOMAIN df :
                df[i]["date_time"].k = "ts" => df'[i]["date_time"] = Dt(df[i]["date_time"].n)
      ]_vars

\* C16: cleaning a raw table of the generators' anomalies (nulls, numbers
\* outside the intervals, texts in numeric columns, invalid labels,
\* malformed timestamps) never raises: no call is applied to a value it
\* raises on, and the run is never left in the error state.
C16_NoErrorState ==
    /\ cpc # "error"
    /\ ~Raised(df)

\* A raw weather table with an invalid timestamp text in one row and a text
\* in visibility_m and unset measurements in the other has been cleaned.
C16_Witness ==
    /\ Cleaned /\ pass = 1 /\ dom = "weather"
    /\ Len(raw) = 2
    /\ raw[1]["date_time"] = Str("Unknown")
    /\ raw[2]["visibility_m"] = Str("Low") /\ IsNull(raw[2]["humidity"])
    /\ Len(df) = 1 /\ IsNull(df[1]["visibility_m"])

(***************************************************************************)
(* Generator and cleaner: the two lists of areas                           *)
(***************************************************************************)
\* The areas of the rows a call of generate_traffic_data has returned.
EmittedAreas == {gdf[i]["area"].s : i \in {j \in DOMAIN gdf : ~IsNull(gdf[j]["area"])}}

\* C17 (as claimed): the generator's areas include the cleaner's list, and
\* the cleaner's list lacks exactly two of them.
C17_OmitsTwo ==
    (Generated /\ gdom = "traffic") =>
        /\ EmittedAreas \subseteq Range(london_areas)
        /\ valid_areas \subseteq Range(london_areas)
        /\ Cardinality(Range(london_areas) \ valid_areas) = 2

\* C17 (amended): every area the generator emits is of its list of 15, the
\* cleaner's list of 9 is part of that list, and the cleaner's list lacks
\* exactly six of the generator's areas: Tower Hamlets, Wandsworth,
\* Hammersmith, Brent, Ealing and Hounslow.
C17_OmitsSix ==
    (Generated /\ gdom = "traffic") =>
        /\ EmittedAreas \subseteq Range(london_areas)
        /\ valid_areas \subseteq Range(london_areas)
        /\ Range(london_areas) \ valid_areas
              = {"Tower Hamlets", "Wandsworth", "Hammersmith", "Brent", "Ealing", "Hounslow"}
        /\ Cardinality(Range(london_areas) \ valid_areas) = 6

\* A call of generate_traffic_data has returned a row with an area the
\* cleaner's list lacks and a row with an area the cleaner's list has.
C17_Witness ==
    /\ Generated /\ gdom = "traffic"
    /\ EmittedAreas \ valid_areas # {}
    /\ EmittedAreas \cap valid_areas # {}

\* The critical fields as the specification lists them, and the rows of a
\* table in which all of them are set.
CriticalOf(d) ==
    IF d = "weather" THEN {"date_time", "temperature_c"}
    ELSE {"date_time", "area", "vehicle_count"}
WhollySet(d, row) == \A c \in CriticalOf(d) : ~IsNull(row[c])

\* C18 (as claimed): but for the critical-field filter, no step of the
\* cleaner leaves fewer rows than it found.
C18_OnlyFilterDeletes ==
    [][cpc \notin {"w_dropna", "t_dropna"} => Len(df') >= Len(df)]_vars

\* C18 (amended): two steps delete rows.  The duplicate removal deletes the
\* rows equal on every field to an earlier row and no other; the
\* critical-field filter deletes the rows with an unset critical field
\* (date_time, temperature_c for weather; date_time, area, vehicle_count
\* for traffic) and no other; every other step keeps the number of rows.
C18_DedupAndFilterDelete ==
    [][/\ cpc = "dedup" =>
            /\ Range(df') = Range(df)
            /\ Len(df') = Cardinality(Range(df))
       /\ cpc \in {"w_dropna", "t_dropna"} =>
            /\ \A i \in DOMAIN df : WhollySet(dom, df[i]) <=> df[i] \in Range(df')
            /\ Len(df') = Cardinality({i \in DOMAIN df : WhollySet(dom, df[i])})
       /\ cpc \notin {"download", "dedup", "w_dropna", "t_dropna"} => Len(df') = Len(df)
      ]_vars

\* A raw weather table of a row with unset humidity and a row with unset
\* temperature has been cleaned: the first row is kept, the second is not.
C18_Witness ==
    /\ Cleaned /\ pass = 1 /\ dom = "weather"
    /\ Len(raw) = 2
    /\ IsNull(raw[1]["humidity"]) /\ ~IsNull(raw[1]["temperature_c"])
    /\ IsNull(raw[2]["temperature_c"])
    /\ Len(df) = 1 /\ IsNull(df[1]["humidity"])

\* A raw table of two equal rows has been cleaned into one row.
C18_WitnessDuplicate ==
    /\ Cleaned /\ pass = 1
    /\ Len(raw) = 2 /\ raw[1] = raw[2]
    /\ Len(df) = 1

\* Two rows that differ in the identifier and in nothing else.
DifferInIdOnly(r1, r2) ==
    /\ r1 # r2
    /\ \A c \in DOMAIN r1 \ {"weather_id", "traffic_id"} : r1[c] = r2[c]

\* C19: the duplicate removal compares whole rows: of the rows equal on
\* every field the first is kept and no other, in the order of the table,
\* and two rows that differ in a field, be it the identifier alone, are
\* both kept.
C19_FullRowDuplicates ==
    [][cpc = "dedup" =>
          /\ \A i, j \in DOMAIN df' : i # j => df'[i] # df'[j]
          /\ \A i \in DOMAIN df : df[i] \in Range(df')
          /\ \A i, j \in DOMAIN df' : i < j =>
                (CHOOSE a \in DOMAIN df : df[a] = df'[i] /\ \A b \in 1..(a - 1) : df[b] # df'[i])
                  < (CHOOSE a \in DOMAIN df : df[a] = df'[j] /\ \A b \in 1..(a - 1) : df[b] # df'[j])
          /\ \A i, j \in DOMAIN df :
                DifferInIdOnly(df[i], df[j]) =>
                    \E a, b \in DOMAIN df' : a # b /\ df'[a] = df[i] /\ df'[b] = df[j]
      ]_vars

\* The duplicate removal has just run on a raw table of two rows that differ
\* in the identifier only, and has kept both.
C19_Witness ==
    /\ cpc = "datetime" /\ pass = 1
    /\ Len(raw) = 2 /\ DifferInIdOnly(raw[1], raw[2])
    /\ df = raw

\* The season of a month, as the specification gives it.
SeasonOfMonth(m) ==
    CASE m \in {12, 1, 2} -> "Winter"
      [] m \in {3, 4, 5} -> "Spring"
      [] m \in {6, 7, 8} -> "Summer"
      [] m \in {9, 10, 11} -> "Autumn"

\* C20: the season step of the weather cleaner leaves a season of the four
\* as it is, whatever the month of the timestamp; it replaces any other
\* season by the season of the month of the cleaned timestamp; it leaves
\* the season unset when the timestamp is unset; and it changes no other
\* field.
C20_SeasonBackfill ==
    [][cpc = "w_season" =>
          /\ Len(df') = Len(df)
          /\ \A i \in DOMAIN df :
                /\ \A c \in DOMAIN df[i] \ {"season"} : df'[i][c] = df[i][c]
                /\ IF /\ df[i]["season"].k = "str"
                      /\ df[i]["season"].s \in {"Winter", "Spring", "Summer", "Autumn"}
                   THEN df'[i]["season"] = df[i]["season"]
                   ELSE IF IsNull(df[i]["date_time"])
                        THEN IsNull(df'[i]["season"])
                        ELSE df'[i]["season"]
                               = Str(SeasonOfMonth(MonthOf(df[i]["date_time"].n)))
      ]_vars

\* A raw weather table has been cleaned in which the first row had the
\* season Summer with a timestamp of January and the second row the season
\* Monsoon with a timestamp of June: both rows end with the season Summer.
C20_Witness ==
    /\ Cleaned /\ pass = 1 /\ dom = "weather"
    /\ Len(raw) = 2 /\ Len(df) = 2
    /\ raw[1]["season"] = Str("Summer") /\ MonthOf(df[1]["date_time"].n) = 1
    /\ df[1]["season"] = Str("Summer")
    /\ raw[2]["season"] = Str("Monsoon") /\ MonthOf(df[2]["date_time"].n) = 6
    /\ df[2]["season"] = Str("Summer")

\* The season step has just run on a row with an unset timestamp and an
\* unset season, and has left the season unset.
C20_WitnessUnset ==
    /\ cpc = "w_dropna" /\ pass = 1
    /\ \E i \in DOMAIN df : IsNull(df[i]["date_time"]) /\ IsNull(df[i]["season"])

\* The numeric fields that are no critical fields.
NonCriticalNumeric(d) ==
    IF d = "weather"
    THEN {"humidity", "rain_mm", "wind_speed_kmh", "visibility_m", "air_pressure_hpa"}
    ELSE {"avg_speed_kmh", "accident_count", "visibility_m"}

\* The fields of NonCriticalNumeric a step with the label pc coerces.
CoercedAt(pc) ==
    CASE pc = "w_numeric" -> NonCriticalNumeric("weather")
      [] pc = "t_numeric" -> {"avg_speed_kmh", "accident_count"}
      [] pc = "t_visibility" -> {"visibility_m"}
      [] OTHER -> {}

\* C21: the step that coerces a non-critical numeric field leaves it unset
\* when it held null or a text that is no number; no later step puts a
\* value in its place; and the critical-field filter keeps every row whose
\* critical fields are set, whatever its non-critical fields hold.
C21_NonNumericUnsetRowKept ==
    [][/\ Len(df') = Len(df) =>
            \A i \in DOMAIN df : \A c \in CoercedAt(cpc) :
                df[i][c].k \notin {"num", "numstr"} => IsNull(df'[i][c])
       /\ cpc \in {"w_numeric", "t_numeric", "t_visibility"} => Len(df') = Len(df)
       /\ cpc \in {"w_condition", "w_city", "w_season", "t_city", "save"} =>
            /\ Len(df') = Len(df)
            /\ \A i \in DOMAIN df : \A c \in NonCriticalNumeric(dom) : df'[i][c] = df[i][c]
       /\ cpc \in {"w_dropna", "t_dropna"} =>
            \A i \in DOMAIN df :
                ((\E c \in NonCriticalNumeric(dom) : IsNull(df[i][c])) /\ WhollySet(dom, df[i]))
                    => \E j \in DOMAIN df' : df'[j] = df[i]
      ]_vars

\* A raw traffic row without avg_speed_kmh, accident_count and visibility_m
\* has been cleaned: the row is kept and the three fields are unset.
C21_Witness ==
    /\ Cleaned /\ pass = 1 /\ dom = "traffic"
    /\ Len(raw) = 1 /\ IsNull(raw[1]["avg_speed_kmh"])
    /\ Len(df) = 1
    /\ IsNull(df[1]["avg_speed_kmh"]) /\ IsNull(df[1]["accident_count"])
    /\ IsNull(df[1]["visibility_m"])

\* C22: in a cleaned table of either domain the city of every row is
\* London.
C22_CityLondon ==
    Cleaned => \A i \in DOMAIN df : df[i]["city"] = Str("London")

\* A raw traffic table of a row with the city Paris and a row without a
\* city has been cleaned, and both rows are kept.
C22_Witness ==
    /\ Cleaned /\ pass = 1 /\ dom = "traffic"
    /\ Len(raw) = 2 /\ Len(df) = 2
    /\ raw[1]["city"] = Str("Paris")
    /\ IsNull(raw[2]["city"])

(***************************************************************************)
(* Generators: further properties                                          *)
(***************************************************************************)
Offset == IF gdom = "weather" THEN 5000 ELSE 9000

\* C23: the base record of the 0-based index i has the identifier
\* offset + i + 1 or none, so the identifiers that are set increase strictly
\* in the order of generation; and every identifier of the returned dataset
\* is a whole number of offset+1 .. offset+N or is unset.
C23_Identifiers ==
    /\ \A k \in DOMAIN data :
          IsNull(data[k][IdCol(gdom)]) \/ data[k][IdCol(gdom)] = Num(Offset + (k - 1) + 1)
    /\ \A k1, k2 \in DOMAIN data :
          (k1 < k2 /\ ~IsNull(data[k1][IdCol(gdom)]) /\ ~IsNull(data[k2][IdCol(gdom)]))
              => data[k1][IdCol(gdom)].n < data[k2][IdCol(gdom)].n
    /\ \A k \in DOMAIN gdf :
          \/ IsNull(gdf[k][IdCol(gdom)])
          \/ /\ gdf[k][IdCol(gdom)].k = "num"
             /\ gdf[k][IdCol(gdom)].n \in (Offset + 1)..(Offset + N)

\* A call has returned a dataset with an unset identifier and with the
\* identifiers of its first and of its last base record.
C23_Witness ==
    /\ Generated /\ N >= 20
    /\ \E k \in DOMAIN gdf : IsNull(gdf[k][IdCol(gdom)])
    /\ \E k \in DOMAIN gdf : gdf[k][IdCol(gdom)] = Num(Offset + 1)
    /\ \E k \in DOMAIN gdf : gdf[k][IdCol(gdom)] = Num(Offset + N)

\* The number of rows of the sequence seq that equal row.
CountOf(seq, row) == Cardinality({k \in DOMAIN seq : seq[k] = row})

NumIn(c, lo, hi) == c.k = "num" /\ lo <= c.n /\ c.n <= hi

\* The hour of day and the month of the base record of the 1-based index k
\* (start 2024-01-01 00:00, one record an hour).
HourOfRecord(k) == (k - 1) % 24
MonthOfRecord(k) == MonthOf(60 * (k - 1))

\* C25: a base record whose has_issues flag is false has no corrupted
\* field: its identifier is set, its timestamp is in the canonical format,
\* its city is London, its labels are valid and its numbers lie in the
\* baseline range of their field.
C25_NoIssuesNoCorruption ==
    /\ Len(issues) = Len(data)
    /\ \A k \in DOMAIN data :
          ~issues[k].has_issues =>
              /\ data[k][IdCol(gdom)] = Num(Offset + k)
              /\ data[k]["date_time"].k = "ts"
              /\ data[k]["date_time"].s = "%Y-%m-%d %H:%M"
              /\ data[k]["date_time"].n \div 60 = k - 1
              /\ data[k]["city"] = Str("London")
              /\ IF gdom = "weather"
                 THEN /\ data[k]["season"] = Str(SeasonOfMonth(MonthOfRecord(k)))
                      /\ InLabels(data[k]["weather_condition"],
                                  {"Clear", "Rain", "Fog", "Storm", "Snow"})
                      /\ NumIn(data[k]["temperature_c"], -5, 35)
                      /\ NumIn(data[k]["humidity"], 20, 100)
                      /\ NumIn(data[k]["rain_mm"], 0, 30)
                      /\ NumIn(data[k]["wind_speed_kmh"], 0, 80)
                      /\ NumIn(data[k]["visibility_m"], 50, 10000)
                      /\ NumIn(data[k]["air_pressure_hpa"], 950, 1050)
                 ELSE /\ InLabels(data[k]["area"], Range(london_areas))
                      /\ InLabels(data[k]["congestion_level"], {"Low", "Medium", "High"})
                      /\ InLabels(data[k]["road_condition"], {"Dry", "Wet", "Snowy", "Damaged"})
                      /\ NumIn(data[k]["vehicle_count"], 100, 5000)
                      /\ NumIn(data[k]["avg_speed_kmh"], 10, 120)
                      /\ NumIn(data[k]["accident_count"], 0, 5)
                      /\ NumIn(data[k]["visibility_m"], 50, 10000)

\* A call has returned with a base record without issues and a base record
\* with issues whose identifier is unset.
C25_Witness ==
    /\ Generated /\ N >= 19
    /\ \E k \in DOMAIN data : ~issues[k].has_issues
    /\ \E k \in DOMAIN data : issues[k].has_issues /\ IsNull(data[k][IdCol(gdom)])

\* C26: in the traffic generator the baseline speed lies in 10..40 when the
\* baseline vehicle count is above 3000 and in 40..120 otherwise; a
\* congestion level that is not corrupted is High when the baseline vehicle
\* count is above 4000 and the baseline speed below 30, else Medium when
\* they are above 2000 and below 50, else Low; and a record without issues
\* carries the two baselines as its vehicle_count and avg_speed_kmh.
C26_CongestionRule ==
    gdom = "traffic" =>
        \A k \in DOMAIN data :
            LET v == issues[k].base_vehicles
                sp == issues[k].base_speed
            IN  /\ IF RushHour(HourOfRecord(k)) THEN v \in 1000..5000 ELSE v \in 100..2000
                /\ IF v > 3000 THEN sp \in 10..40 ELSE sp \in 40..120
                /\ InLabels(data[k]["congestion_level"], {"Low", "Medium", "High"}) =>
                      data[k]["congestion_level"].s
                          = (IF v > 4000 /\ sp < 30 THEN "High"
                             ELSE IF v > 2000 /\ sp < 50 THEN "Medium"
                             ELSE "Low")
                /\ ~issues[k].has_issues =>
                      /\ data[k]["vehicle_count"] = Num(v)
                      /\ data[k]["avg_speed_kmh"] = Num(sp)

\* A call of the traffic generator has returned with a base record of more
\* than 2000 and at most 4000 baseline vehicles, a baseline speed below 30
\* and the congestion level Medium.
C26_Witness ==
    /\ Generated /\ gdom = "traffic"
    /\ \E k \in DOMAIN data :
          /\ issues[k].base_vehicles > 2000 /\ issues[k].base_vehicles <= 4000
          /\ issues[k].base_speed < 30
          /\ data[k]["congestion_level"] = Str("Medium")

\* A call of the traffic generator has returned with a base record of the
\* congestion level High.
C26_WitnessHigh ==
    /\ Generated /\ gdom = "traffic"
    /\ \E k \in DOMAIN data : data[k]["congestion_level"] = Str("High")

\* The names both inputs carry, but for the join keys, the timestamp and the
\* visibility.
OtherCommonNames ==
    (Range(weather_df.cols) \cap Range(traffic_df.cols))
        \ {"hour", "city", "date_time", "visibility_m"}

\* C27: after the resolution of the suffixed columns the merged table has,
\* for every other name of both inputs, one column of that name with the
\* value of the weather row, and no column of that name with a suffix.
C27_OtherCollisionsWeatherSide ==
    mpc \in {"select", "done"} =>
        \A b \in OtherCommonNames :
            /\ Cardinality({i \in DOMAIN merged_df.cols : merged_df.cols[i] = b}) = 1
            /\ (b \o "_weather") \notin Range(merged_df.cols)
            /\ (b \o "_traffic") \notin Range(merged_df.cols)
            /\ \A k \in DOMAIN merged_df.rows :
                  merged_df.rows[k][b] = weather_df.rows[pairs[k][1]][b]

(***************************************************************************)
(* Object store: properties                                                *)
(***************************************************************************)
\* C28: no step of a run of the Cleaner changes an object of bronze, its
\* last step puts the cleaned frame in silver; no step of the Merge changes
\* an object of bronze or of silver, its last step puts the merged frame in
\* gold.
C28_EarlierArtifactsKept ==
    [][/\ (cpc # "idle" /\ pass' = pass) => bronze' = bronze
       /\ cpc = "save" =>
             silver'[CleanedObject(dom)] = [cols |-> ColsOf(dom), rows |-> df]
       /\ mpc # "idle" => (bronze' = bronze /\ silver' = silver)
       /\ mpc = "select" => gold'["merged_dataset.parquet"] = final_df']_vars

\* The Merge has written a frame with a row to gold; the frame it holds of
\* the weather is no longer the one in silver.
C28_Witness ==
    /\ Merged
    /\ Len(gold["merged_dataset.parquet"].rows) >= 1
    /\ weather_df # silver[CleanedObject("weather")]
    /\ DOMAIN bronze # {}

\* The Cleaner has written to silver a table that differs from the raw one,
\* which bronze still holds.
C28_WitnessCleaner ==
    /\ Cleaned /\ pass = 1
    /\ bronze[RawObject(dom)] = raw
    /\ Len(raw) >= 1
    /\ silver[CleanedObject(dom)].rows # raw

\* C29: in either generator current_date of record k lies in the hour that
\* starts k - 1 hours after the start date (the weather one at its start,
\* the traffic one 0..59 minutes into it), so the records k of the two have
\* the same hour floor; a timestamp written in the canonical format is read
\* back into that hour.
C29_SameHourFloor ==
    /\ Len(issues) = Len(data)
    /\ \A k \in DOMAIN data :
          /\ FloorHour(Dt(issues[k].current_date)) = Dt(60 * (k - 1))
          /\ issues[k].current_date - 60 * (k - 1)
                \in (IF gdom = "weather" THEN {0} ELSE 0..59)
          /\ data[k]["date_time"].k = "ts" /\ data[k]["date_time"].s = FmtStd
                => FloorHour(ParseEach(data[k]["date_time"])) = Dt(60 * (k - 1))

\* A traffic call has returned with a record after the first whose
\* timestamp is canonical and lies past the start of its hour.
C29_Witness ==
    /\ Generated /\ gdom = "traffic"
    /\ \E k \in DOMAIN data :
          /\ k >= 2
          /\ issues[k].current_date % 60 > 0
          /\ data[k]["date_time"] = Ts(FmtStd, issues[k].current_date)

(***************************************************************************)
(* Cleaner: the area and the critical-field filter                         *)
(***************************************************************************)
\* C30: in the traffic section the repair of the area keeps every row with
\* its timestamp and vehicle count and leaves each area in the valid list;
\* when the critical-field filter runs every area is in the valid list, and
\* the filter keeps exactly the rows whose timestamp and vehicle count are
\* set: no row is removed for its area.
C30_NoRowRemovedForArea ==
    [][/\ cpc = "t_area" =>
             /\ Len(df') = Len(df)
             /\ \A i \in DOMAIN df :
                   /\ InLabels(df'[i]["area"], valid_areas)
                   /\ df'[i]["date_time"] = df[i]["date_time"]
                   /\ df'[i]["vehicle_count"] = df[i]["vehicle_count"]
       /\ cpc = "t_dropna" =>
             /\ \A i \in DOMAIN df : InLabels(df[i]["area"], valid_areas)
             /\ df' = SelectSeq(df, LAMBDA row : /\ ~IsNull(row["date_time"])
                                                 /\ ~IsNull(row["vehicle_count"]))]_vars

\* A raw traffic table with a row of unset area and a row of unlisted area
\* has been cleaned without the loss of a row, each with a valid area.
C30_Witness ==
    /\ Cleaned /\ dom = "traffic" /\ pass = 1
    /\ Len(df) = Len(raw)
    /\ \E i \in DOMAIN raw : IsNull(raw[i]["area"])
    /\ \E i \in DOMAIN raw : raw[i]["area"] = Str("Brent")
    /\ \A i \in DOMAIN df : InLabels(df[i]["area"], valid_areas)

====
